---------------------------- MODULE Spec2Model ----------------------------
(***************************************************************************)
(* Model of the persistence layer of dev_journal (src-tauri/src):          *)
(*   db.rs        init, run_migrations, apply_migration, ensure_column     *)
(*   lib.rs       run (startup: db::init, then app.manage(AppState))       *)
(*   commands.rs  the repository commands and import_backup                *)
(*                                                                         *)
(* Timestamps are instants of a discrete clock: the integer t stands for   *)
(* the RFC 3339 string that to_rfc3339 yields at instant t; the value      *)
(* BadStamp stands for a string parse_from_rfc3339 rejects; NULL is SQL    *)
(* NULL / Option::None.                                                    *)
(***************************************************************************)
EXTENDS Integers, Sequences, FiniteSets, TLC

VARIABLES
    schema,             \* schema objects present in the database file
    schema_migrations,  \* rows of schema_migrations: version -> applied_at
    mig,                \* position of the startup code (lib.rs run / db.rs init)
    hist,               \* history of the current run of the Migration Runner
    now,                \* Utc::now(), in seconds
    foreign_keys,       \* whether the linked SQLite enforces foreign keys by default
    db,                 \* the six data tables, each a function id -> row
    result,             \* what the last command returned
    lock,               \* AppState.db, the Mutex: its holder, or NoHolder
    wk,                 \* per invoking thread: the command it runs and where it is
    serial              \* the tasks table had each command run alone, in lock order

vars == <<schema, schema_migrations, mig, hist, now, foreign_keys, db, result,
          lock, wk, serial>>

----------------------------------------------------------------------------
(* Bounds *)

MaxNow == 2
MaxRuns == 2
MaxId == 2
MaxTasks == 1

\* The threads that invoke commands, and the Mutex with no holder.
Workers == {"w1", "w2"}
NoHolder == "none"
NoCommand == [op |-> "", id |-> 0, status |-> ""]
NoRead == [found |-> FALSE, status |-> "", timer_started_at |-> << >>,
           timer_accumulated_seconds |-> 0]
Idle == [pc |-> "idle", cmd |-> NoCommand, stamp |-> 0, read |-> NoRead]

\* Option<T>: None, or Some(x).
None == << >>
Some(x) == <<x>>
unwrap_or(o, d) == IF o = None THEN d ELSE o[1]

\* A timestamp string that parse_from_rfc3339 rejects, and a date string that
\* parse_from_str(.., "%Y-%m-%d") rejects (instants and days are >= 0).
BadStamp == -1
BadDate == -1

Max(a, b) == IF a >= b THEN a ELSE b
SetMax(S) == CHOOSE x \in S : \A y \in S : y <= x

----------------------------------------------------------------------------
(* db.rs: the schema and the migration steps *)

\* Schema objects: a table, a column of a table, an index on a table.
Table(t) == <<t>>
Column(t, c) == <<t, c>>
Index(t, n) == <<t, n, "index">>

\* Columns each CREATE TABLE statement declares.
BaseColumns(t) ==
    CASE t = "schema_migrations" -> {"version", "applied_at"}
      [] t = "entries" -> {"id", "date", "yesterday", "today", "created_at"}
      [] t = "pages" -> {"id", "title", "content", "created_at", "updated_at"}
      [] t = "tasks" -> {"id", "title", "description", "status", "created_at", "updated_at"}
      [] t = "goals" -> {"id", "title", "description", "status", "progress",
                         "target_date", "created_at", "updated_at"}
      [] t = "habits" -> {"id", "title", "description", "target_per_week", "color",
                          "created_at", "updated_at"}
      [] t = "habit_logs" -> {"id", "habit_id", "date", "created_at"}

\* Columns each CREATE INDEX statement names.
IndexColumns(n) ==
    CASE n = "idx_tasks_status_due_date" -> {"status", "due_date"}
      [] n = "idx_goals_status_target_date" -> {"status", "target_date"}
      [] n = "idx_habit_logs_habit_date" -> {"habit_id", "date"}
      [] n = "idx_tasks_timer_started_at" -> {"timer_started_at"}

CreateTable(t) == [op |-> "create_table", table |-> t, name |-> t]
EnsureColumn(t, c) == [op |-> "ensure_column", table |-> t, name |-> c]
CreateIndex(t, n) == [op |-> "create_index", table |-> t, name |-> n]

LatestVersion == 5

\* The closure run_migrations hands to apply_migration for each version.
MigrationBody(v) ==
    CASE v = 1 -> << CreateTable("entries"), CreateTable("pages"), CreateTable("tasks") >>
      [] v = 2 -> << EnsureColumn("tasks", "priority"),
                     EnsureColumn("tasks", "due_date"),
                     EnsureColumn("tasks", "completed_at"),
                     CreateIndex("tasks", "idx_tasks_status_due_date") >>
      [] v = 3 -> << CreateTable("goals"),
                     CreateIndex("goals", "idx_goals_status_target_date") >>
      [] v = 4 -> << CreateTable("habits"), CreateTable("habit_logs"),
                     CreateIndex("habit_logs", "idx_habit_logs_habit_date") >>
      [] v = 5 -> << EnsureColumn("tasks", "time_estimate_minutes"),
                     EnsureColumn("tasks", "timer_started_at"),
                     EnsureColumn("tasks", "timer_accumulated_seconds"),
                     CreateIndex("tasks", "idx_tasks_timer_started_at") >>

has_column(sch, t, c) == Column(t, c) \in sch

\* One schema statement against the schema sch: [ok, schema].  CREATE ... IF
\* NOT EXISTS leaves an existing object alone; ensure_column alters the table
\* only when has_column finds no such column; a statement that names a
\* missing table or column is an SQL error.
ExecSchemaStmt(sch, s) ==
    CASE s.op = "create_table" ->
            IF Table(s.table) \in sch
            THEN [ok |-> TRUE, schema |-> sch]
            ELSE [ok |-> TRUE,
                  schema |-> sch \cup {Table(s.table)}
                                 \cup {Column(s.table, c) : c \in BaseColumns(s.table)}]
      [] s.op = "ensure_column" ->
            IF has_column(sch, s.table, s.name)
            THEN [ok |-> TRUE, schema |-> sch]
            ELSE IF Table(s.table) \in sch
                 THEN [ok |-> TRUE, schema |-> sch \cup {Column(s.table, s.name)}]
                 ELSE [ok |-> FALSE, schema |-> sch]
      [] s.op = "create_index" ->
            IF Index(s.table, s.name) \in sch
            THEN [ok |-> TRUE, schema |-> sch]
            ELSE IF /\ Table(s.table) \in sch
                    /\ \A c \in IndexColumns(s.name) : has_column(sch, s.table, c)
                 THEN [ok |-> TRUE, schema |-> sch \cup {Index(s.table, s.name)}]
                 ELSE [ok |-> FALSE, schema |-> sch]

\* The DEFAULT of each ADD COLUMN definition (lines 75-77 and 148-160); a
\* definition without one has NULL.
ColumnDefault(c) ==
    CASE c = "priority" -> "medium"
      [] c \in {"time_estimate_minutes", "timer_accumulated_seconds"} -> 0
      [] OTHER -> << >>

\* Every schema statement as DROP and CREATE: the rows of its table go.
ExecSchemaStmtRecreating(d, sch, s) == [d EXCEPT ![s.table] = << >>]

\* The rows of the store d after the schema statement s ran on the schema
\* sch and was Ok.  ALTER TABLE .. ADD COLUMN gives each row of the table the
\* column with its default and leaves the row's other values as they are;
\* CREATE TABLE IF NOT EXISTS, CREATE INDEX IF NOT EXISTS and an
\* ensure_column that finds the column write no row.
ExecSchemaStmtRows(d, sch, s) ==
    IF s.op = "ensure_column" /\ ~has_column(sch, s.table, s.name)
    THEN LET rows == d[s.table]
         IN [d EXCEPT ![s.table] =
                [i \in DOMAIN rows |-> (s.name :> ColumnDefault(s.name)) @@ rows[i]]]
    ELSE d

\* The schema after the first n statements of body ran on sch.
RECURSIVE RunBody(_, _, _)
RunBody(sch, body, n) ==
    IF n = 0 THEN sch
    ELSE ExecSchemaStmt(RunBody(sch, body, n - 1), body[n]).schema

\* What the body of version v adds to a schema that has none of it.
StepObjects(v) ==
    LET before == IF v \in {2, 5} THEN {Table("tasks")} \cup
                                       {Column("tasks", c) : c \in BaseColumns("tasks")}
                  ELSE {}
    IN RunBody(before, MigrationBody(v), Len(MigrationBody(v))) \ before

LatestSchema ==
    {Table("schema_migrations")}
      \cup {Column("schema_migrations", c) : c \in BaseColumns("schema_migrations")}
      \cup UNION {StepObjects(v) : v \in 1..LatestVersion}

EmptyDb == [entries |-> << >>, pages |-> << >>, tasks |-> << >>,
            goals |-> << >>, habits |-> << >>, habit_logs |-> << >>]

NoResult == [ok |-> TRUE]

EmptyHist == [attempted |-> << >>, bodyStmts |-> 0,
              startSchema |-> {}, startMigrations |-> << >>,
              stepSchema |-> {}, stepMigrations |-> << >>]

----------------------------------------------------------------------------
(* lib.rs run and db.rs init: startup *)

Versions == DOMAIN schema_migrations

\* Position after apply_migration(v) returned Ok.
AfterStep(m) ==
    IF m.v = LatestVersion
    THEN [m EXCEPT !.phase = "init_ok"]
    ELSE [m EXCEPT !.phase = "apply", !.v = m.v + 1, !.i = 0]

\* The error of one step is dropped and the next step runs.
PropagateErrorAsContinue(m) ==
    IF m.phase \in {"apply", "body", "record"} THEN AfterStep(m)
    ELSE [m EXCEPT !.phase = "aborted", !.at = m.phase]

\* The `?` on a failed statement returns Err from run_migrations and init;
\* `.expect("Failed to initialize database")` in the setup hook then panics.
PropagateError(m) == [m EXCEPT !.phase = "aborted", !.at = m.phase]

StepPhases == {"apply", "body", "record"}

NeverApplied(v) == FALSE

\* apply_migration, lines 177-181: SELECT EXISTS(... WHERE version = ?1) = 1.
already_applied(v) == v \in Versions

BodyErrorSwallowed(m) == [m EXCEPT !.phase = "record"]

\* apply_migration, line 187: `migration(conn)?` returns the body's error.
BodyError(m) == PropagateError(m)

SchemaRolledBack(sch, step_start) == step_start

\* The statements of a body run in autocommit mode, outside any transaction:
\* what ran before the failing statement stays in the database file.
SchemaAfterFailure(sch, step_start) == sch

\* db.rs init, lines 7-18: create the directory, open the file, set the
\* pragmas.  Opening creates an absent file as an empty database.
init_open ==
    /\ mig.phase = "init"
    /\ \E fails \in BOOLEAN :
          mig' = IF fails THEN PropagateError(mig)
                 ELSE [mig EXCEPT !.phase = "run_migrations"]
    /\ hist' = [EmptyHist EXCEPT !.startSchema = schema,
                                 !.startMigrations = schema_migrations]
    /\ UNCHANGED <<schema, schema_migrations, now, foreign_keys, db, result, lock, wk, serial>>

\* run_migrations, lines 26-32: CREATE TABLE IF NOT EXISTS schema_migrations.
run_migrations_table ==
    /\ mig.phase = "run_migrations"
    /\ \E fails \in BOOLEAN :
          IF fails
          THEN /\ mig' = PropagateError(mig)
               /\ UNCHANGED schema
          ELSE LET r == ExecSchemaStmt(schema, CreateTable("schema_migrations"))
               IN /\ schema' = r.schema
                  /\ mig' = [mig EXCEPT !.phase = "apply", !.v = 1, !.i = 0]
    /\ UNCHANGED <<schema_migrations, hist, now, foreign_keys, db, result, lock, wk, serial>>

\* apply_migration, lines 177-185: the already_applied query and early return.
apply_migration_check ==
    /\ mig.phase = "apply"
    /\ \E fails \in BOOLEAN :
          IF fails \/ Table("schema_migrations") \notin schema
          THEN /\ mig' = PropagateError(mig)
          ELSE IF already_applied(mig.v)
               THEN mig' = AfterStep(mig)
               ELSE mig' = [mig EXCEPT !.phase = "body", !.i = 1]
    /\ hist' = [hist EXCEPT !.attempted = Append(@, mig.v),
                            !.stepSchema = schema,
                            !.stepMigrations = schema_migrations]
    /\ UNCHANGED <<schema, schema_migrations, now, foreign_keys, db, result, lock, wk, serial>>

\* apply_migration, line 187: one statement of migration(conn).  Every
\* statement runs in autocommit mode: there is no transaction around a step.
apply_migration_body ==
    /\ mig.phase = "body"
    /\ \E fails \in BOOLEAN :
          LET r == ExecSchemaStmt(schema, MigrationBody(mig.v)[mig.i])
          IN IF fails \/ ~r.ok
             THEN /\ mig' = BodyError(mig)
                  /\ schema' = SchemaAfterFailure(schema, hist.stepSchema)
                  /\ UNCHANGED <<hist, db>>
             ELSE /\ schema' = r.schema
                  /\ db' = ExecSchemaStmtRows(db, schema, MigrationBody(mig.v)[mig.i])
                  /\ hist' = [hist EXCEPT !.bodyStmts = @ + 1]
                  /\ mig' = IF mig.i = Len(MigrationBody(mig.v))
                            THEN [mig EXCEPT !.phase = "record"]
                            ELSE [mig EXCEPT !.i = mig.i + 1]
    /\ UNCHANGED <<schema_migrations, now, foreign_keys, result, lock, wk, serial>>

\* apply_migration, lines 189-194: INSERT INTO schema_migrations.
apply_migration_record ==
    /\ mig.phase = "record"
    /\ \E fails \in BOOLEAN :
          IF fails \/ mig.v \in Versions
          THEN /\ mig' = PropagateError(mig)
               /\ UNCHANGED schema_migrations
          ELSE /\ schema_migrations' = (mig.v :> now) @@ schema_migrations
               /\ mig' = AfterStep(mig)
    /\ UNCHANGED <<schema, hist, now, foreign_keys, db, result, lock, wk, serial>>

\* lib.rs run, lines 23-25: init returned Ok(conn); app.manage publishes it.
manage_state ==
    /\ mig.phase = "init_ok"
    /\ mig' = [mig EXCEPT !.phase = "serving"]
    /\ UNCHANGED <<schema, schema_migrations, hist, now, foreign_keys, db, result, lock, wk, serial>>

PublishedDespiteError == mig.phase \in {"serving", "aborted"}

\* The command layer can reach the connection: State<AppState> is managed.
Published == mig.phase = "serving"

\* The process ends (the panic of a failed startup, or std::process::exit
\* from the tray's quit item) and the application is launched again on the
\* same database file.
Relaunch ==
    /\ mig.phase \in {"aborted", "serving"}
    /\ mig.run < MaxRuns
    /\ mig' = [phase |-> "init", v |-> 0, i |-> 0, run |-> mig.run + 1, at |-> ""]
    /\ UNCHANGED <<schema, schema_migrations, hist, now, foreign_keys, db, result, lock, wk, serial>>

Tick ==
    /\ now < MaxNow
    /\ now' = now + 1
    /\ UNCHANGED <<schema, schema_migrations, mig, hist, foreign_keys, db, result, lock, wk, serial>>

----------------------------------------------------------------------------
(* commands.rs: normalisation helpers *)

MaxEstimateMinutes == 10080

normalize_status(status) ==
    IF status \in {"todo", "in_progress", "done"} THEN status ELSE "todo"

normalize_priority(priority) ==
    IF priority \in {Some("low"), Some("medium"), Some("high"), Some("urgent")}
    THEN unwrap_or(priority, "medium")
    ELSE "medium"

Clamp(x, lo, hi) == IF x < lo THEN lo ELSE IF x > hi THEN hi ELSE x

\* No clamp: the value as given.
EstimateAsGiven(value) == unwrap_or(value, 0)

normalize_time_estimate_minutes(value) == Clamp(unwrap_or(value, 0), 0, MaxEstimateMinutes)

normalize_accumulated_seconds(value) == Max(unwrap_or(value, 0), 0)

\* Seconds from the instant the string started_at denotes to the instant
\* clock, floored at zero; zero when the string does not parse.
ElapsedNotFloored(started_at, clock) ==
    IF started_at # BadStamp THEN clock - started_at ELSE 0

elapsed_since(started_at, clock) ==
    IF started_at # BadStamp THEN Max(clock - started_at, 0) ELSE 0

\* i64, the type of timer_accumulated_seconds: the integers i64_MIN..i64_MAX.
\* The build has 2^63 - 1 for i64_MAX; here the type keeps its shape at a
\* width that, as in the build, the clock cannot use up by running (the
\* seconds a timer collects are at most MaxNow): only a backup file brings
\* in a value near i64_MAX.
i64_MAX == MaxNow + 1
i64_MIN == -i64_MAX - 1

OverflowsI64(a, b) == a + b > i64_MAX \/ a + b < i64_MIN

\* `a + b` on i64 where overflow is not checked (cargo's release profile):
\* the sum wraps around in two's complement.
AddI64(a, b) == ((a + b - i64_MIN) % (i64_MAX - i64_MIN + 1)) + i64_MIN

\* Where overflow is checked (cargo's dev profile) `a + b` panics instead:
\* the build decides, so an overflowing addition has both outcomes.
PanicChoices(overflows) == IF overflows THEN BOOLEAN ELSE {FALSE}

----------------------------------------------------------------------------
(* SQL helpers: rowid assignment and the tables *)

\* SQLite gives an INSERT without id the rowid max(rowid) + 1 (1 when empty).
NextRowId(t) == IF DOMAIN t = {} THEN 1 ELSE SetMax(DOMAIN t) + 1

Put(t, id, row) == (id :> row) @@ t

Remove(t, ids) == [i \in DOMAIN t \ ids |-> t[i]]

\* What a command returns: Ok(..) or Err(..).
Ok(op) == [ok |-> TRUE]
Err(op) == [ok |-> FALSE]

----------------------------------------------------------------------------
(* commands.rs: entries *)

EntryWithDate(entries, date) == {i \in DOMAIN entries : entries[i].date = date}

\* INSERT OR REPLACE: the conflicting row is deleted and a new one inserted.
UpsertEntryAsReplace(entries, date, yesterday, today, created_at) ==
    LET kept == Remove(entries, EntryWithDate(entries, date))
    IN Put(kept, NextRowId(entries),
           [date |-> date, yesterday |-> yesterday, today |-> today,
            created_at |-> created_at])

\* INSERT INTO entries ... ON CONFLICT(date) DO UPDATE SET yesterday, today.
UpsertEntry(entries, date, yesterday, today, created_at) ==
    LET hit == EntryWithDate(entries, date)
    IN IF hit = {}
       THEN Put(entries, NextRowId(entries),
                [date |-> date, yesterday |-> yesterday, today |-> today,
                 created_at |-> created_at])
       ELSE [i \in DOMAIN entries |->
                IF i \in hit
                THEN [entries[i] EXCEPT !.yesterday = yesterday, !.today = today]
                ELSE entries[i]]

save_entry(date, yesterday, today) ==
    /\ Published
    /\ EntryWithDate(db.entries, date) # {} \/ NextRowId(db.entries) <= MaxId
    /\ db' = [db EXCEPT !.entries = UpsertEntry(@, date, yesterday, today, now)]
    /\ result' = Ok("save_entry")
    /\ UNCHANGED <<schema, schema_migrations, mig, hist, now, foreign_keys, lock, wk, serial>>

delete_entry(date) ==
    /\ Published
    /\ db' = [db EXCEPT !.entries = Remove(@, EntryWithDate(@, date))]
    /\ result' = Ok("delete_entry")
    /\ UNCHANGED <<schema, schema_migrations, mig, hist, now, foreign_keys, lock, wk, serial>>

----------------------------------------------------------------------------
(* commands.rs: tasks and the task timer *)

\* The fold without its test of the status: every edit stops the timer.
FoldTimerAlways(status, timer_started_at, timer_accumulated_seconds, clock) ==
    [timer_started_at |-> None,
     timer_accumulated_seconds |->
         IF timer_started_at # None
         THEN AddI64(timer_accumulated_seconds, elapsed_since(timer_started_at[1], clock))
         ELSE timer_accumulated_seconds]

FoldTimerKeepsRunning(status, timer_started_at, timer_accumulated_seconds, clock) ==
    [timer_started_at |-> timer_started_at,
     timer_accumulated_seconds |->
         IF status = "done" /\ timer_started_at # None
         THEN AddI64(timer_accumulated_seconds, elapsed_since(timer_started_at[1], clock))
         ELSE timer_accumulated_seconds]

\* Lines 571-576, 632-637 and 1142-1147: a task that becomes done has the
\* running timer folded into the accumulated seconds and stopped.
FoldTimerIfDone(status, timer_started_at, timer_accumulated_seconds, clock) ==
    IF status = "done"
    THEN [timer_started_at |-> None,
          timer_accumulated_seconds |->
              IF timer_started_at # None
              THEN AddI64(timer_accumulated_seconds, elapsed_since(timer_started_at[1], clock))
              ELSE timer_accumulated_seconds]
    ELSE [timer_started_at |-> timer_started_at,
          timer_accumulated_seconds |-> timer_accumulated_seconds]

\* The `+=` of the fold (lines 573, 634, 1144) leaves the range of i64.
FoldOverflows(status, timer_started_at, timer_accumulated_seconds, clock) ==
    /\ status = "done"
    /\ timer_started_at # None
    /\ OverflowsI64(timer_accumulated_seconds, elapsed_since(timer_started_at[1], clock))

\* A command panics: nothing it was about to write is written (a Transaction
\* rolls back as the unwinding drops it), and no command reaches the
\* connection again in this run of the process (the panic ends it, or leaves
\* the Mutex poisoned, so that every later lock() is Err).
Panicked ==
    /\ mig' = [mig EXCEPT !.phase = "aborted", !.at = "command"]
    /\ UNCHANGED <<db, result>>

\* completed_at as create_task, update_task and update_task_status set it.
CompletedAtAlways(status, clock) == Some(clock)

CompletedAtFor(status, clock) == IF status = "done" THEN Some(clock) ELSE None

\* The row create_task inserts.
NewTask(title, description, status, priority, due_date, time_estimate_minutes, stamp) ==
    LET st == normalize_status(status)
    IN [title |-> title,
        description |-> description,
        status |-> st,
        priority |-> normalize_priority(priority),
        due_date |-> due_date,
        completed_at |-> CompletedAtFor(st, stamp),
        time_estimate_minutes |-> normalize_time_estimate_minutes(time_estimate_minutes),
        timer_started_at |-> None,
        timer_accumulated_seconds |-> 0,
        created_at |-> stamp,
        updated_at |-> stamp]

create_task(title, description, status, priority, due_date, time_estimate_minutes) ==
    /\ Published
    /\ NextRowId(db.tasks) <= MaxTasks
    /\ db' = [db EXCEPT !.tasks =
                 Put(@, NextRowId(@),
                     NewTask(title, description, status, priority, due_date,
                             time_estimate_minutes, now))]
    /\ result' = Ok("create_task")
    /\ UNCHANGED <<schema, schema_migrations, mig, hist, now, foreign_keys, lock, wk, serial>>

\* What the SELECTs of the timer commands return for id: the row's status
\* and timer, or not found (update_task and update_task_status then go on
\* with no start instant and 0 seconds).
ReadTask(tasks, id) ==
    IF id \in DOMAIN tasks
    THEN [found |-> TRUE,
          status |-> tasks[id].status,
          timer_started_at |-> tasks[id].timer_started_at,
          timer_accumulated_seconds |-> tasks[id].timer_accumulated_seconds]
    ELSE [found |-> FALSE, status |-> "", timer_started_at |-> None,
          timer_accumulated_seconds |-> 0]

\* UPDATE tasks SET ... WHERE id = ?: no row, no change.
UpdateRow(t, id, row) == IF id \in DOMAIN t THEN [t EXCEPT ![id] = row] ELSE t

\* update_task, lines 571-599, given what its SELECTs read; stamp is `now`
\* of line 548 and clock the instant elapsed_since reads.
UpdateTaskRows(tasks, id, title, description, status, priority, due_date, time_estimate_minutes, read, stamp, clock) ==
    LET st == normalize_status(status)
        timer == FoldTimerIfDone(st, read.timer_started_at,
                                 read.timer_accumulated_seconds, clock)
    IN IF id \in DOMAIN tasks
       THEN UpdateRow(tasks, id,
              [tasks[id] EXCEPT
                 !.title = title,
                 !.description = description,
                 !.status = st,
                 !.priority = normalize_priority(priority),
                 !.due_date = due_date,
                 !.completed_at = CompletedAtFor(st, stamp),
                 !.time_estimate_minutes =
                     normalize_time_estimate_minutes(time_estimate_minutes),
                 !.timer_started_at = timer.timer_started_at,
                 !.timer_accumulated_seconds = timer.timer_accumulated_seconds,
                 !.updated_at = stamp])
       ELSE tasks

update_task(id, title, description, status, priority, due_date, time_estimate_minutes) ==
    /\ Published
    /\ LET read == ReadTask(db.tasks, id)
       IN \E panics \in PanicChoices(FoldOverflows(normalize_status(status),
                             read.timer_started_at, read.timer_accumulated_seconds, now)) :
             IF panics THEN Panicked
             ELSE /\ db' = [db EXCEPT !.tasks =
                              UpdateTaskRows(@, id, title, description, status, priority,
                                             due_date, time_estimate_minutes, read, now, now)]
                  /\ result' = Ok("update_task")
                  /\ mig' = mig
    /\ UNCHANGED <<schema, schema_migrations, hist, now, foreign_keys, lock, wk, serial>>

\* update_task_status, lines 632-649, given what its SELECTs read.
UpdateStatusRows(tasks, id, status, read, stamp, clock) ==
    LET st == normalize_status(status)
        timer == FoldTimerIfDone(st, read.timer_started_at,
                                 read.timer_accumulated_seconds, clock)
    IN IF id \in DOMAIN tasks
       THEN UpdateRow(tasks, id,
              [tasks[id] EXCEPT
                 !.status = st,
                 !.completed_at = CompletedAtFor(st, stamp),
                 !.timer_started_at = timer.timer_started_at,
                 !.timer_accumulated_seconds = timer.timer_accumulated_seconds,
                 !.updated_at = stamp])
       ELSE tasks

update_task_status(id, status) ==
    /\ Published
    /\ LET read == ReadTask(db.tasks, id)
       IN \E panics \in PanicChoices(FoldOverflows(normalize_status(status),
                             read.timer_started_at, read.timer_accumulated_seconds, now)) :
             IF panics THEN Panicked
             ELSE /\ db' = [db EXCEPT !.tasks =
                              UpdateStatusRows(@, id, status, read, now, now)]
                  /\ result' = Ok("update_task_status")
                  /\ mig' = mig
    /\ UNCHANGED <<schema, schema_migrations, hist, now, foreign_keys, lock, wk, serial>>

\* No demotion: the status as read.
StartStatusKept(status) == status

\* Lines 676-680: a done task whose timer starts is demoted to in_progress.
StartStatus(status) == IF status = "done" THEN "in_progress" ELSE status

\* start_task_timer, lines 668-691, given the row its SELECT read.
StartTimerRows(tasks, id, read, stamp) ==
    IF ~read.found THEN tasks
    ELSE IF read.timer_started_at # None THEN tasks
    ELSE IF id \in DOMAIN tasks
         THEN LET next_status == StartStatus(read.status)
              IN UpdateRow(tasks, id,
                   [tasks[id] EXCEPT
                      !.status = next_status,
                      !.completed_at = CompletedAtFor(next_status, stamp),
                      !.timer_started_at = Some(stamp),
                      !.updated_at = stamp])
         ELSE tasks

start_task_timer(id) ==
    /\ Published
    /\ db' = [db EXCEPT !.tasks = StartTimerRows(@, id, ReadTask(@, id), now)]
    /\ result' = Ok("start_task_timer")
    /\ UNCHANGED <<schema, schema_migrations, mig, hist, now, foreign_keys, lock, wk, serial>>

\* The timer is stopped and its elapsed seconds are dropped.
PauseWithoutAdding(tasks, id, read, stamp, clock) ==
    IF ~read.found \/ read.timer_started_at = None \/ id \notin DOMAIN tasks THEN tasks
    ELSE UpdateRow(tasks, id, [tasks[id] EXCEPT !.timer_started_at = None, !.updated_at = stamp])

\* The `+` of line 718 leaves the range of i64.
PauseOverflows(read, clock) ==
    /\ read.found
    /\ read.timer_started_at # None
    /\ OverflowsI64(read.timer_accumulated_seconds,
                    elapsed_since(read.timer_started_at[1], clock))

\* pause_task_timer, lines 710-724, given the row its SELECT read.
PauseTimerRows(tasks, id, read, stamp, clock) ==
    IF ~read.found THEN tasks
    ELSE IF read.timer_started_at = None THEN tasks
    ELSE IF id \in DOMAIN tasks
         THEN UpdateRow(tasks, id,
                [tasks[id] EXCEPT
                   !.timer_started_at = None,
                   !.timer_accumulated_seconds =
                       AddI64(read.timer_accumulated_seconds,
                              elapsed_since(read.timer_started_at[1], clock)),
                   !.updated_at = stamp])
         ELSE tasks

pause_task_timer(id) ==
    /\ Published
    /\ LET read == ReadTask(db.tasks, id)
       IN \E panics \in PanicChoices(PauseOverflows(read, now)) :
             IF panics THEN Panicked
             ELSE /\ db' = [db EXCEPT !.tasks = PauseTimerRows(@, id, read, now, now)]
                  /\ result' = Ok("pause_task_timer")
                  /\ mig' = mig
    /\ UNCHANGED <<schema, schema_migrations, hist, now, foreign_keys, lock, wk, serial>>

\* The UPDATE without its WHERE clause: every task is reset.
ResetAllTimers(tasks, id, stamp) ==
    [i \in DOMAIN tasks |->
        [tasks[i] EXCEPT !.timer_started_at = None, !.timer_accumulated_seconds = 0,
                         !.updated_at = stamp]]

\* reset_task_timer, lines 734-738: one UPDATE, no SELECT.
ResetTimerRows(tasks, id, stamp) ==
    IF id \in DOMAIN tasks
    THEN UpdateRow(tasks, id,
           [tasks[id] EXCEPT
              !.timer_started_at = None,
              !.timer_accumulated_seconds = 0,
              !.updated_at = stamp])
    ELSE tasks

reset_task_timer(id) ==
    /\ Published
    /\ db' = [db EXCEPT !.tasks = ResetTimerRows(@, id, now)]
    /\ result' = Ok("reset_task_timer")
    /\ UNCHANGED <<schema, schema_migrations, mig, hist, now, foreign_keys, lock, wk, serial>>

delete_task(id) ==
    /\ Published
    /\ db' = [db EXCEPT !.tasks = Remove(@, {id})]
    /\ result' = Ok("delete_task")
    /\ UNCHANGED <<schema, schema_migrations, mig, hist, now, foreign_keys, lock, wk, serial>>

----------------------------------------------------------------------------
(* commands.rs: goal, habit and habit-log normalisation *)

MaxProgress == 100
DefaultTargetPerWeek == 5
MaxTargetPerWeek == 14
DefaultHabitColor == "#60a5fa"

\* Clock ticks per calendar day of the model's clock.
TicksPerDay == 2

normalize_goal_status(status) ==
    IF status \in {Some("active"), Some("paused"), Some("completed"), Some("archived")}
    THEN unwrap_or(status, "active")
    ELSE "active"

normalize_progress(progress) == Clamp(unwrap_or(progress, 0), 0, MaxProgress)

\* No clamp: the value as given, 5 when absent.
TargetAsGiven(target_per_week) == unwrap_or(target_per_week, DefaultTargetPerWeek)

normalize_target_per_week(target_per_week) ==
    Clamp(unwrap_or(target_per_week, DefaultTargetPerWeek), 1, MaxTargetPerWeek)

\* value.trim().is_empty(): the strings of the model that are all whitespace.
IsBlank(str) == str \in {"", " "}

normalize_habit_color(color) ==
    LET value == unwrap_or(color, DefaultHabitColor)
    IN IF IsBlank(value) THEN DefaultHabitColor ELSE value

\* Utc::now().format("%Y-%m-%d"): the day the instant clock falls on.
Today(clock) == clock \div TicksPerDay

normalize_habit_date(date, clock) == IF date # BadDate THEN date ELSE Today(clock)

----------------------------------------------------------------------------
(* commands.rs: import_backup *)

EmptyPayload == [entries |-> << >>, pages |-> << >>, tasks |-> << >>,
                 goals |-> << >>, habits |-> << >>, habit_logs |-> << >>]

\* The habit tables are left out of the delete phase.
DeleteAllButHabits ==
    << [kind |-> "delete", table |-> "entries"],
       [kind |-> "delete", table |-> "pages"],
       [kind |-> "delete", table |-> "tasks"],
       [kind |-> "delete", table |-> "goals"] >>

\* Lines 1070-1081: DELETE FROM each of the six tables.
DeleteAll ==
    << [kind |-> "delete", table |-> "entries"],
       [kind |-> "delete", table |-> "pages"],
       [kind |-> "delete", table |-> "tasks"],
       [kind |-> "delete", table |-> "goals"],
       [kind |-> "delete", table |-> "habit_logs"],
       [kind |-> "delete", table |-> "habits"] >>

\* The delete phase runs whatever the flag says.
ImportStatementsReplacing(payload, replace_existing) ==
    DeleteAll
    \o [i \in 1..Len(payload.entries) |-> [kind |-> "entry", rec |-> payload.entries[i]]]
    \o [i \in 1..Len(payload.pages) |-> [kind |-> "page", rec |-> payload.pages[i]]]
    \o [i \in 1..Len(payload.tasks) |-> [kind |-> "task", rec |-> payload.tasks[i]]]
    \o [i \in 1..Len(payload.goals) |-> [kind |-> "goal", rec |-> payload.goals[i]]]
    \o [i \in 1..Len(payload.habits) |-> [kind |-> "habit", rec |-> payload.habits[i]]]
    \o [i \in 1..Len(payload.habit_logs) |->
            [kind |-> "habit_log", rec |-> payload.habit_logs[i]]]

\* Lines 1069-1309 as the sequence of SQL statements the call issues.
ImportStatements(payload, replace_existing) ==
    (IF replace_existing THEN DeleteAll ELSE << >>)
    \o [i \in 1..Len(payload.entries) |-> [kind |-> "entry", rec |-> payload.entries[i]]]
    \o [i \in 1..Len(payload.pages) |-> [kind |-> "page", rec |-> payload.pages[i]]]
    \o [i \in 1..Len(payload.tasks) |-> [kind |-> "task", rec |-> payload.tasks[i]]]
    \o [i \in 1..Len(payload.goals) |-> [kind |-> "goal", rec |-> payload.goals[i]]]
    \o [i \in 1..Len(payload.habits) |-> [kind |-> "habit", rec |-> payload.habits[i]]]
    \o [i \in 1..Len(payload.habit_logs) |->
            [kind |-> "habit_log", rec |-> payload.habit_logs[i]]]

\* A plain INSERT whatever the record carries: the id is dropped.
UpsertByIdAsInsert(t, id, row) == Put(t, NextRowId(t), row)

\* INSERT (id, ...) ON CONFLICT(id) DO UPDATE SET every column, or a plain
\* INSERT when the record carries no id.
UpsertById(t, id, row) ==
    IF id # None THEN Put(t, id[1], row) ELSE Put(t, NextRowId(t), row)

\* The record's updated_at is dropped for its created_at.
ResolveUpdatedAtAsCreated(updated_at, created_at) == created_at

\* updated_at.unwrap_or_else(|| created_at.clone()), created_at being the
\* record's created_at or, without one, `now` (lines 1105-1106).
ResolveUpdatedAt(updated_at, created_at) == unwrap_or(updated_at, created_at)

ImportEntry(entries, e, clock) ==
    LET created_at == unwrap_or(e.created_at, clock)
        hit == EntryWithDate(entries, e.date)
    IN IF hit = {}
       THEN Put(entries, NextRowId(entries),
                [date |-> e.date, yesterday |-> e.yesterday, today |-> e.today,
                 created_at |-> created_at])
       ELSE [i \in DOMAIN entries |->
                IF i \in hit
                THEN [entries[i] EXCEPT !.yesterday = e.yesterday, !.today = e.today,
                                        !.created_at = created_at]
                ELSE entries[i]]

ImportPage(pages, p, clock) ==
    LET created_at == unwrap_or(p.created_at, clock)
        updated_at == ResolveUpdatedAt(p.updated_at, created_at)
    IN UpsertById(pages, p.id,
                  [title |-> p.title, content |-> p.content,
                   created_at |-> created_at, updated_at |-> updated_at])

ImportTask(tasks, t, clock) ==
    LET created_at == unwrap_or(t.created_at, clock)
        updated_at == ResolveUpdatedAt(t.updated_at, created_at)
        status == normalize_status(t.status)
        timer == FoldTimerIfDone(status, t.timer_started_at,
                     normalize_accumulated_seconds(t.timer_accumulated_seconds), clock)
    IN UpsertById(tasks, t.id,
                  [title |-> t.title,
                   description |-> t.description,
                   status |-> status,
                   priority |-> normalize_priority(t.priority),
                   due_date |-> t.due_date,
                   completed_at |-> t.completed_at,
                   time_estimate_minutes |->
                       normalize_time_estimate_minutes(t.time_estimate_minutes),
                   timer_started_at |-> timer.timer_started_at,
                   timer_accumulated_seconds |-> timer.timer_accumulated_seconds,
                   created_at |-> created_at,
                   updated_at |-> updated_at])

ImportGoal(goals, g, clock) ==
    LET created_at == unwrap_or(g.created_at, clock)
        updated_at == ResolveUpdatedAt(g.updated_at, created_at)
        status == normalize_goal_status(g.status)
        progress == IF status = "completed" THEN MaxProgress
                    ELSE normalize_progress(g.progress)
    IN UpsertById(goals, g.id,
                  [title |-> g.title,
                   description |-> unwrap_or(g.description, ""),
                   status |-> status,
                   progress |-> progress,
                   target_date |-> g.target_date,
                   created_at |-> created_at,
                   updated_at |-> updated_at])

ImportHabit(habits, h, clock) ==
    LET created_at == unwrap_or(h.created_at, clock)
        updated_at == ResolveUpdatedAt(h.updated_at, created_at)
    IN UpsertById(habits, h.id,
                  [title |-> h.title,
                   description |-> unwrap_or(h.description, ""),
                   target_per_week |-> normalize_target_per_week(h.target_per_week),
                   color |-> normalize_habit_color(h.color),
                   created_at |-> created_at,
                   updated_at |-> updated_at])

\* No UNIQUE(habit_id, date): no row is ever in conflict.
LogWithNoPair(logs, habit_id, date) == {}

LogWithPair(logs, habit_id, date) ==
    {i \in DOMAIN logs : logs[i].habit_id = habit_id /\ logs[i].date = date}

\* The habit_logs statement of import_backup: [ok, logs].  UNIQUE(habit_id,
\* date) is violated when a row with another id holds the pair; the foreign
\* key, where enforced, when no habit has the id.
ImportHabitLog(w, l, clock, fk) ==
    LET created_at == unwrap_or(l.created_at, clock)
        date == normalize_habit_date(l.date, clock)
        pair == LogWithPair(w.habit_logs, l.habit_id, date)
        row == [habit_id |-> l.habit_id, date |-> date, created_at |-> created_at]
    IN IF fk /\ l.habit_id \notin DOMAIN w.habits
       THEN [ok |-> FALSE, logs |-> w.habit_logs]
       ELSE IF l.id # None
            THEN IF pair \ {l.id[1]} # {}
                 THEN [ok |-> FALSE, logs |-> w.habit_logs]
                 ELSE [ok |-> TRUE, logs |-> Put(w.habit_logs, l.id[1], row)]
            ELSE IF pair # {}
                 THEN [ok |-> TRUE,
                       logs |-> [i \in DOMAIN w.habit_logs |->
                                   IF i \in pair
                                   THEN [w.habit_logs[i] EXCEPT !.created_at = created_at]
                                   ELSE w.habit_logs[i]]]
                 ELSE [ok |-> TRUE,
                       logs |-> Put(w.habit_logs, NextRowId(w.habit_logs), row)]

\* One statement of the import against the transaction's view w: [ok, db].
ExecImportStmt(w, s, clock, fk) ==
    CASE s.kind = "delete" ->
            [ok |-> TRUE, db |-> [w EXCEPT ![s.table] = << >>]]
      [] s.kind = "entry" ->
            [ok |-> TRUE, db |-> [w EXCEPT !.entries = ImportEntry(@, s.rec, clock)]]
      [] s.kind = "page" ->
            [ok |-> TRUE, db |-> [w EXCEPT !.pages = ImportPage(@, s.rec, clock)]]
      [] s.kind = "task" ->
            [ok |-> TRUE, db |-> [w EXCEPT !.tasks = ImportTask(@, s.rec, clock)]]
      [] s.kind = "goal" ->
            [ok |-> TRUE, db |-> [w EXCEPT !.goals = ImportGoal(@, s.rec, clock)]]
      [] s.kind = "habit" ->
            [ok |-> TRUE, db |-> [w EXCEPT !.habits = ImportHabit(@, s.rec, clock)]]
      [] s.kind = "habit_log" ->
            LET r == ImportHabitLog(w, s.rec, clock, fk)
            IN [ok |-> r.ok, db |-> [w EXCEPT !.habit_logs = r.logs]]

\* The statements from the i-th on, inside the transaction; io_fail is the
\* index of a statement the storage engine fails (0: none).  [ok, db, at]:
\* the view when the loop ended and the index it ended at.
RECURSIVE RunImport(_, _, _, _, _, _)
RunImport(w, stmts, i, io_fail, clock, fk) ==
    IF i > Len(stmts) THEN [ok |-> TRUE, db |-> w, at |-> i]
    ELSE IF i = io_fail THEN [ok |-> FALSE, db |-> w, at |-> i]
    ELSE LET r == ExecImportStmt(w, stmts[i], clock, fk)
         IN IF r.ok THEN RunImport(r.db, stmts, i + 1, io_fail, clock, fk)
            ELSE [ok |-> FALSE, db |-> w, at |-> i]

\* Autocommit: what ran before the failure stays.
EndTransactionAsAutocommit(before, run) == run.db

\* A Transaction dropped without commit rolls back (the `?` returns drop tx);
\* tx.commit() makes the transaction's view the store.
EndTransaction(before, run) == IF run.ok THEN run.db ELSE before

WithinIdBound(d) ==
    \A t \in DOMAIN d :
        DOMAIN d[t] \subseteq 1..(IF t = "tasks" THEN MaxTasks ELSE MaxId)

\* The loop over payload.tasks gets to a record whose fold overflows (line
\* 1144, ahead of the record's INSERT) before the statement it stops at.
ImportOverflows(stmts, run, clock) ==
    \E i \in 1..Len(stmts) :
        /\ i <= run.at
        /\ stmts[i].kind = "task"
        /\ FoldOverflows(normalize_status(stmts[i].rec.status),
                         stmts[i].rec.timer_started_at,
                         normalize_accumulated_seconds(
                             stmts[i].rec.timer_accumulated_seconds),
                         clock)

import_backup(payload, replace_existing, io_fail) ==
    /\ Published
    /\ LET stmts == ImportStatements(payload, replace_existing)
           run == RunImport(db, stmts, 1, io_fail, now, foreign_keys)
       IN /\ io_fail <= Len(stmts) + 1
          /\ WithinIdBound(run.db)
          /\ \E panics \in PanicChoices(ImportOverflows(stmts, run, now)) :
                IF panics THEN Panicked
                ELSE /\ mig' = mig
                     /\ IF io_fail = Len(stmts) + 1
                        THEN \* tx.commit() itself fails
                             /\ db' = EndTransaction(db, [run EXCEPT !.ok = FALSE])
                             /\ result' = Err("import_backup")
                        ELSE /\ db' = EndTransaction(db, run)
                             /\ result' = IF run.ok THEN Ok("import_backup")
                                           ELSE Err("import_backup")
    /\ UNCHANGED <<schema, schema_migrations, hist, now, foreign_keys, lock, wk, serial>>

----------------------------------------------------------------------------
(* commands.rs: pages *)

create_page(title, content) ==
    /\ Published
    /\ NextRowId(db.pages) <= MaxId
    /\ db' = [db EXCEPT !.pages =
                 Put(@, NextRowId(@),
                     [title |-> title, content |-> content,
                      created_at |-> now, updated_at |-> now])]
    /\ result' = Ok("create_page")
    /\ UNCHANGED <<schema, schema_migrations, mig, hist, now, foreign_keys, lock, wk, serial>>

\* The row is written anew, created_at included.
UpdatePageRowsRestamped(pages, id, title, content, stamp) ==
    UpdateRow(pages, id, [title |-> title, content |-> content,
                          created_at |-> stamp, updated_at |-> stamp])

\* UPDATE pages SET title, content, updated_at WHERE id = ?, lines 427-431.
UpdatePageRows(pages, id, title, content, stamp) ==
    IF id \in DOMAIN pages
    THEN UpdateRow(pages, id,
           [pages[id] EXCEPT !.title = title, !.content = content, !.updated_at = stamp])
    ELSE pages

update_page(id, title, content) ==
    /\ Published
    /\ db' = [db EXCEPT !.pages = UpdatePageRows(@, id, title, content, now)]
    /\ result' = Ok("update_page")
    /\ UNCHANGED <<schema, schema_migrations, mig, hist, now, foreign_keys, lock, wk, serial>>

delete_page(id) ==
    /\ Published
    /\ db' = [db EXCEPT !.pages = Remove(@, {id} \cap DOMAIN @)]
    /\ result' = Ok("delete_page")
    /\ UNCHANGED <<schema, schema_migrations, mig, hist, now, foreign_keys, lock, wk, serial>>

----------------------------------------------------------------------------
(* commands.rs: goals, habits and habit logs *)

\* The row create_goal inserts and the columns update_goal sets (lines
\* 808-812, 855-859): a completed goal is stored with progress 100.
GoalProgressAsGiven(status, progress) == normalize_progress(progress)

GoalProgress(status, progress) ==
    IF normalize_goal_status(status) = "completed" THEN MaxProgress
    ELSE normalize_progress(progress)

create_goal(title, description, status, progress, target_date) ==
    /\ Published
    /\ NextRowId(db.goals) <= MaxTasks
    /\ db' = [db EXCEPT !.goals =
                 Put(@, NextRowId(@),
                     [title |-> title,
                      description |-> description,
                      status |-> normalize_goal_status(status),
                      progress |-> GoalProgress(status, progress),
                      target_date |-> target_date,
                      created_at |-> now,
                      updated_at |-> now])]
    /\ result' = Ok("create_goal")
    /\ UNCHANGED <<schema, schema_migrations, mig, hist, now, foreign_keys, lock, wk, serial>>

update_goal(id, title, description, status, progress, target_date) ==
    /\ Published
    /\ db' = [db EXCEPT !.goals =
                 IF id \in DOMAIN @
                 THEN UpdateRow(@, id,
                        [@[id] EXCEPT
                           !.title = title,
                           !.description = description,
                           !.status = normalize_goal_status(status),
                           !.progress = GoalProgress(status, progress),
                           !.target_date = target_date,
                           !.updated_at = now])
                 ELSE @]
    /\ result' = Ok("update_goal")
    /\ UNCHANGED <<schema, schema_migrations, mig, hist, now, foreign_keys, lock, wk, serial>>

delete_goal(id) ==
    /\ Published
    /\ db' = [db EXCEPT !.goals = Remove(@, {id})]
    /\ result' = Ok("delete_goal")
    /\ UNCHANGED <<schema, schema_migrations, mig, hist, now, foreign_keys, lock, wk, serial>>

create_habit(title, description, target_per_week, color) ==
    /\ Published
    /\ NextRowId(db.habits) <= MaxId
    /\ db' = [db EXCEPT !.habits =
                 Put(@, NextRowId(@),
                     [title |-> title,
                      description |-> description,
                      target_per_week |-> normalize_target_per_week(target_per_week),
                      color |-> normalize_habit_color(color),
                      created_at |-> now,
                      updated_at |-> now])]
    /\ result' = Ok("create_habit")
    /\ UNCHANGED <<schema, schema_migrations, mig, hist, now, foreign_keys, lock, wk, serial>>

update_habit(id, title, description, target_per_week, color) ==
    /\ Published
    /\ db' = [db EXCEPT !.habits =
                 IF id \in DOMAIN @
                 THEN UpdateRow(@, id,
                        [@[id] EXCEPT
                           !.title = title,
                           !.description = description,
                           !.target_per_week = normalize_target_per_week(target_per_week),
                           !.color = normalize_habit_color(color),
                           !.updated_at = now])
                 ELSE @]
    /\ result' = Ok("update_habit")
    /\ UNCHANGED <<schema, schema_migrations, mig, hist, now, foreign_keys, lock, wk, serial>>

\* The logs of no habit.
LogsOfNoHabit(logs, habit_id) == {}

\* WHERE habit_id = ?1
LogsOfHabit(logs, habit_id) == {i \in DOMAIN logs : logs[i].habit_id = habit_id}

\* delete_habit: DELETE FROM habit_logs WHERE habit_id, DELETE FROM habits
\* WHERE id, commit; io_fail is the statement the storage engine fails (0:
\* none, 3: the commit).
delete_habit(id, io_fail) ==
    /\ Published
    /\ io_fail \in 0..3
    /\ LET s1 == [db EXCEPT !.habit_logs = Remove(@, LogsOfHabit(@, id))]
           s2 == [s1 EXCEPT !.habits = Remove(@, {id})]
           run == CASE io_fail = 1 -> [ok |-> FALSE, db |-> db]
                    [] io_fail = 2 -> [ok |-> FALSE, db |-> s1]
                    [] io_fail = 3 -> [ok |-> FALSE, db |-> s2]
                    [] OTHER -> [ok |-> TRUE, db |-> s2]
       IN /\ db' = EndTransaction(db, run)
          /\ result' = IF run.ok THEN Ok("delete_habit") ELSE Err("delete_habit")
    /\ UNCHANGED <<schema, schema_migrations, mig, hist, now, foreign_keys, lock, wk, serial>>

\* toggle_habit_completion: the upsert or the DELETE of the log of (habit_id,
\* normalized date), then UPDATE habits SET updated_at, then commit.
toggle_habit_completion(habit_id, date, completed) ==
    /\ Published
    /\ LET normalized_date == normalize_habit_date(date, now)
           log == IF completed
                  THEN ImportHabitLog(db, [id |-> None, habit_id |-> habit_id,
                                           date |-> normalized_date,
                                           created_at |-> Some(now)],
                                      now, foreign_keys)
                  ELSE [ok |-> TRUE,
                        logs |-> Remove(db.habit_logs,
                                        LogWithPair(db.habit_logs, habit_id,
                                                    normalized_date))]
           touched == IF habit_id \in DOMAIN db.habits
                      THEN [db.habits EXCEPT ![habit_id].updated_at = now]
                      ELSE db.habits
           run == [ok |-> log.ok,
                   db |-> [db EXCEPT !.habit_logs = log.logs, !.habits = touched]]
       IN /\ WithinIdBound(run.db)
          /\ db' = EndTransaction(db, run)
          /\ result' = IF run.ok THEN Ok("toggle_habit_completion")
                       ELSE Err("toggle_habit_completion")
    /\ UNCHANGED <<schema, schema_migrations, mig, hist, now, foreign_keys, lock, wk, serial>>

----------------------------------------------------------------------------
(* commands.rs: the list operations, and the payload a snapshot of them    *)
(* deserializes to                                                         *)

\* The calendar order of the date strings of the model.
DateOrder == <<"2024-01-01", "2024-01-02">>
DateRank(d) == CHOOSE i \in DOMAIN DateOrder : DateOrder[i] = d

\* SELECT id, date, yesterday, today, created_at FROM entries ORDER BY date DESC
RECURSIVE EntriesByDateDesc(_, _)
EntriesByDateDesc(entries, ids) ==
    IF ids = {} THEN << >>
    ELSE LET i == CHOOSE i \in ids :
                     \A j \in ids : DateRank(entries[i].date) >= DateRank(entries[j].date)
         IN << [id |-> i, date |-> entries[i].date, yesterday |-> entries[i].yesterday,
                today |-> entries[i].today, created_at |-> entries[i].created_at] >>
            \o EntriesByDateDesc(entries, ids \ {i})

get_entries(d) == EntriesByDateDesc(d.entries, DOMAIN d.entries)

\* SELECT ... ORDER BY updated_at DESC, as <<id, row>>; rows with one
\* updated_at come in the order SQLite visits them, here by id.
RECURSIVE ByUpdatedDesc(_, _)
ByUpdatedDesc(t, ids) ==
    IF ids = {} THEN << >>
    ELSE LET top == {i \in ids : \A j \in ids : t[i].updated_at >= t[j].updated_at}
             i == CHOOSE i \in top : \A j \in top : i <= j
         IN << <<i, t[i]>> >> \o ByUpdatedDesc(t, ids \ {i})

get_pages(d) == ByUpdatedDesc(d.pages, DOMAIN d.pages)

get_tasks(d) == ByUpdatedDesc(d.tasks, DOMAIN d.tasks)

\* get_goals orders by status, target_date and updated_at; as <<id, row>>,
\* here by status rank and then by id.
GoalStatusRank(status) ==
    CASE status = "active" -> 0
      [] status = "paused" -> 1
      [] status = "completed" -> 2
      [] status = "archived" -> 3
      [] OTHER -> 4

RECURSIVE GoalsByStatus(_, _)
GoalsByStatus(t, ids) ==
    IF ids = {} THEN << >>
    ELSE LET top == {i \in ids : \A j \in ids :
                        GoalStatusRank(t[i].status) <= GoalStatusRank(t[j].status)}
             i == CHOOSE i \in top : \A j \in top : i <= j
         IN << <<i, t[i]>> >> \o GoalsByStatus(t, ids \ {i})

get_goals(d) == GoalsByStatus(d.goals, DOMAIN d.goals)

\* SELECT date FROM habit_logs WHERE habit_id = ?1: completed_dates.
CompletedDates(logs, habit_id) ==
    {logs[i].date : i \in {j \in DOMAIN logs : logs[j].habit_id = habit_id}}

\* get_habits, as <<id, row, completed_dates>>.
get_habits(d) ==
    LET hs == ByUpdatedDesc(d.habits, DOMAIN d.habits)
    IN [k \in DOMAIN hs |-> <<hs[k][1], hs[k][2], CompletedDates(d.habit_logs, hs[k][1])>>]

Range(seq) == {seq[k] : k \in DOMAIN seq}

\* The export: list-all over the entities, each list as a set of records.
Snapshot(d) ==
    [entries |-> Range(get_entries(d)),
     pages |-> Range(get_pages(d)),
     tasks |-> Range(get_tasks(d)),
     goals |-> Range(get_goals(d)),
     habits |-> Range(get_habits(d))]

RECURSIVE Flatten(_)
Flatten(seqs) == IF seqs = << >> THEN << >> ELSE Head(seqs) \o Flatten(Tail(seqs))

RECURSIVE SeqOfSet(_)
SeqOfSet(S) ==
    IF S = {} THEN << >>
    ELSE LET x == CHOOSE x \in S : \A y \in S : x <= y
         IN <<x>> \o SeqOfSet(S \ {x})

\* The BackupPayload the lists deserialize to: BackupEntryInput has no id
\* field, so serde drops the id of an exported entry; every other record
\* keeps its id; a habit's completed_dates become habit_logs without id.
SnapshotPayload(d) ==
    LET es == get_entries(d)
        ps == get_pages(d)
        ts == get_tasks(d)
        gs == get_goals(d)
        hs == get_habits(d)
    IN [entries |-> [k \in DOMAIN es |->
                        [date |-> es[k].date, yesterday |-> es[k].yesterday,
                         today |-> es[k].today, created_at |-> Some(es[k].created_at)]],
        pages |-> [k \in DOMAIN ps |->
                        [id |-> Some(ps[k][1]), title |-> ps[k][2].title,
                         content |-> ps[k][2].content,
                         created_at |-> Some(ps[k][2].created_at),
                         updated_at |-> Some(ps[k][2].updated_at)]],
        tasks |-> [k \in DOMAIN ts |->
                        [id |-> Some(ts[k][1]), title |-> ts[k][2].title,
                         description |-> ts[k][2].description,
                         status |-> ts[k][2].status,
                         priority |-> Some(ts[k][2].priority),
                         due_date |-> ts[k][2].due_date,
                         completed_at |-> ts[k][2].completed_at,
                         time_estimate_minutes |-> Some(ts[k][2].time_estimate_minutes),
                         timer_started_at |-> ts[k][2].timer_started_at,
                         timer_accumulated_seconds |->
                             Some(ts[k][2].timer_accumulated_seconds),
                         created_at |-> Some(ts[k][2].created_at),
                         updated_at |-> Some(ts[k][2].updated_at)]],
        goals |-> [k \in DOMAIN gs |->
                        [id |-> Some(gs[k][1]), title |-> gs[k][2].title,
                         description |-> Some(gs[k][2].description),
                         status |-> Some(gs[k][2].status),
                         progress |-> Some(gs[k][2].progress),
                         target_date |-> gs[k][2].target_date,
                         created_at |-> Some(gs[k][2].created_at),
                         updated_at |-> Some(gs[k][2].updated_at)]],
        habits |-> [k \in DOMAIN hs |->
                        [id |-> Some(hs[k][1]), title |-> hs[k][2].title,
                         description |-> Some(hs[k][2].description),
                         target_per_week |-> Some(hs[k][2].target_per_week),
                         color |-> Some(hs[k][2].color),
                         created_at |-> Some(hs[k][2].created_at),
                         updated_at |-> Some(hs[k][2].updated_at)]],
        habit_logs |-> Flatten([k \in DOMAIN hs |->
                        LET dates == SeqOfSet(hs[k][3])
                        IN [n \in DOMAIN dates |->
                              [id |-> None, habit_id |-> hs[k][1], date |-> dates[n],
                               created_at |-> None]]])]

\* Export, wipe and import the snapshot with replace_existing = true.
BackupRoundTrip == import_backup(SnapshotPayload(db), TRUE, 0)

----------------------------------------------------------------------------
(* Specifications *)

\* Startup on an empty database file, with relaunches; once the connection
\* is published the command layer saves journal entries.
InitMig ==
    /\ schema = {}
    /\ schema_migrations = << >>
    /\ mig = [phase |-> "init", v |-> 0, i |-> 0, run |-> 1, at |-> ""]
    /\ hist = EmptyHist
    /\ now = 0
    /\ foreign_keys = FALSE
    /\ db = EmptyDb
    /\ result = NoResult
    /\ lock = NoHolder
    /\ wk = [w \in Workers |-> Idle]
    /\ serial = EmptyDb.tasks

NextMig ==
    \/ init_open
    \/ run_migrations_table
    \/ apply_migration_check
    \/ apply_migration_body
    \/ apply_migration_record
    \/ manage_state
    \/ Relaunch
    \/ Tick
    \/ save_entry("2024-01-01", "A", "B")

SpecMig == InitMig /\ [][NextMig]_vars

\* The state a first launch on an empty database file reaches when no
\* statement fails: the latest schema, the five versions recorded, the
\* connection published, no data.
Serving ==
    /\ schema = LatestSchema
    /\ schema_migrations = [v \in 1..LatestVersion |-> 0]
    /\ mig = [phase |-> "serving", v |-> LatestVersion,
              i |-> Len(MigrationBody(LatestVersion)), run |-> 1, at |-> ""]
    /\ hist = [attempted |-> [v \in 1..LatestVersion |-> v],
               bodyStmts |-> 16,
               startSchema |-> {},
               startMigrations |-> << >>,
               stepSchema |-> LatestSchema \ StepObjects(LatestVersion),
               stepMigrations |-> [v \in 1..(LatestVersion - 1) |-> 0]]
    /\ now = 0
    /\ db = EmptyDb
    /\ result = NoResult
    /\ lock = NoHolder
    /\ wk = [w \in Workers |-> Idle]
    /\ serial = EmptyDb.tasks

\* Tasks and the task timer, with imports that carry tasks.
Statuses == {"in_progress", "done", "paused"}

BackupTask(id, status, completed_at, timer_started_at, timer_accumulated_seconds) ==
    [id |-> id, title |-> "t", description |-> "d", status |-> status,
     priority |-> None, due_date |-> None, completed_at |-> completed_at,
     time_estimate_minutes |-> None, timer_started_at |-> timer_started_at,
     timer_accumulated_seconds |-> timer_accumulated_seconds,
     created_at |-> None, updated_at |-> None]

TaskImports ==
    UNION { { BackupTask(id, "done", None, Some(0), Some(1)),
              BackupTask(id, "done", Some(0), None, None),
              BackupTask(id, "todo", Some(0), Some(BadStamp), Some(-1)),
              BackupTask(id, "in_progress", None, Some(0), None) }
            : id \in {None, Some(1)} }

InitTasks ==
    /\ Serving
    /\ foreign_keys = FALSE

NextTasks ==
    \/ Tick
    \/ \E status \in Statuses : create_task("t", "d", status, None, None, None)
    \/ \E id \in 1..MaxTasks, status \in Statuses :
          update_task(id, "t", "d", status, None, None, None)
    \/ \E id \in 1..MaxTasks, status \in Statuses : update_task_status(id, status)
    \/ \E id \in 1..MaxTasks : start_task_timer(id)
    \/ \E id \in 1..MaxTasks : pause_task_timer(id)
    \/ \E id \in 1..MaxTasks : reset_task_timer(id)
    \/ \E id \in 1..MaxTasks : delete_task(id)
    \/ \E t \in TaskImports, replace_existing \in BOOLEAN :
          import_backup([EmptyPayload EXCEPT !.tasks = <<t>>], replace_existing, 0)

SpecTasks == InitTasks /\ [][NextTasks]_vars

\* Journal entries.
Dates == {"2024-01-01", "2024-01-02"}
Texts == {"A", "C"}

InitEntries ==
    /\ Serving
    /\ foreign_keys = FALSE

NextEntries ==
    \/ Tick
    \/ \E date \in Dates, yesterday \in Texts, today \in Texts :
          save_entry(date, yesterday, today)
    \/ \E date \in Dates : delete_entry(date)
    \/ BackupRoundTrip

SpecEntries == InitEntries /\ [][NextEntries]_vars

\* Imports over all six tables, with statements the storage engine fails.
BackupEntry(date, yesterday, today, created_at) ==
    [date |-> date, yesterday |-> yesterday, today |-> today, created_at |-> created_at]

BackupPage(id, title, content) ==
    [id |-> id, title |-> title, content |-> content,
     created_at |-> None, updated_at |-> None]

BackupGoal(id, status, progress) ==
    [id |-> id, title |-> "g", description |-> None, status |-> status,
     progress |-> progress, target_date |-> None,
     created_at |-> None, updated_at |-> None]

BackupHabit(id, target_per_week, color) ==
    [id |-> id, title |-> "h", description |-> None,
     target_per_week |-> target_per_week, color |-> color,
     created_at |-> None, updated_at |-> None]

BackupHabitLog(id, habit_id, date) ==
    [id |-> id, habit_id |-> habit_id, date |-> date, created_at |-> None]

FullPayload ==
    [entries |-> << BackupEntry("2024-01-01", "A", "B", None) >>,
     pages |-> << BackupPage(Some(1), "p", "x") >>,
     tasks |-> << BackupTask(Some(1), "done", None, Some(0), Some(1)) >>,
     goals |-> << BackupGoal(Some(1), Some("completed"), Some(150)) >>,
     habits |-> << BackupHabit(Some(1), Some(0), Some(" ")) >>,
     habit_logs |-> << BackupHabitLog(None, 1, 0) >>]

\* Its habit log names the pair (1, 0) under a new id.
ClashingPayload ==
    [entries |-> << BackupEntry("2024-01-01", "C", "D", Some(0)) >>,
     pages |-> << BackupPage(None, "q", "y") >>,
     tasks |-> << >>,
     goals |-> << BackupGoal(None, None, None) >>,
     habits |-> << BackupHabit(Some(2), None, None) >>,
     habit_logs |-> << BackupHabitLog(Some(2), 1, 0) >>]

\* Two logs of one habit whose unparsable dates both become today.
TwinLogsPayload ==
    [EmptyPayload EXCEPT
        !.habits = << BackupHabit(Some(2), Some(99), Some("#fff")) >>,
        !.habit_logs = << BackupHabitLog(Some(1), 2, BadDate),
                          BackupHabitLog(Some(2), 2, BadDate) >>]

\* Records that carry one of created_at and updated_at, or neither; its
\* page has no id.
StampedPayload ==
    [EmptyPayload EXCEPT
        !.pages = << [BackupPage(None, "q", "y") EXCEPT !.created_at = Some(0)] >>,
        !.tasks = << [BackupTask(Some(1), "todo", None, None, None)
                         EXCEPT !.updated_at = Some(0)] >>,
        !.goals = << [BackupGoal(Some(1), Some("paused"), Some(-1))
                         EXCEPT !.created_at = Some(0)] >>,
        !.habits = << BackupHabit(Some(1), None, None) >>]

ImportPayloads == {FullPayload, ClashingPayload, TwinLogsPayload}

InitImport ==
    /\ Serving
    /\ foreign_keys \in BOOLEAN

NextImport ==
    \/ Tick
    \/ \E payload \in ImportPayloads, replace_existing \in BOOLEAN :
          \E io_fail \in 0..(Len(ImportStatements(payload, replace_existing)) + 1) :
              import_backup(payload, replace_existing, io_fail)

SpecImport == InitImport /\ [][NextImport]_vars

\* Imports that succeed or fail as a whole on their own records: which row a
\* record lands on and what is stored for it.
KeyPayloads == {EmptyPayload, FullPayload, ClashingPayload, StampedPayload}

InitKeys ==
    /\ Serving
    /\ foreign_keys \in BOOLEAN

NextKeys ==
    \/ Tick
    \/ \E payload \in KeyPayloads, replace_existing \in BOOLEAN :
          import_backup(payload, replace_existing, 0)

SpecKeys == InitKeys /\ [][NextKeys]_vars

\* Habits and their logs within one instant of the clock; the linked SQLite
\* enforces foreign keys or not.
HabitDates == {0, 1, BadDate}

\* A log of id 2 for the habit of id 1, which the payload does not carry.
LogOnlyPayload ==
    [EmptyPayload EXCEPT !.habit_logs = << BackupHabitLog(Some(2), 1, 0) >>]

HabitPayloads == {TwinLogsPayload, LogOnlyPayload}

InitHabits ==
    /\ Serving
    /\ foreign_keys \in BOOLEAN

NextHabits ==
    \/ create_habit("h", "", None, None)
    \/ \E id \in 1..MaxId, io_fail \in 0..3 : delete_habit(id, io_fail)
    \/ \E habit_id \in 1..MaxId, date \in HabitDates, completed \in BOOLEAN :
          toggle_habit_completion(habit_id, date, completed)
    \/ \E payload \in HabitPayloads, replace_existing \in BOOLEAN :
          import_backup(payload, replace_existing, 0)

SpecHabits == InitHabits /\ [][NextHabits]_vars

\* The stored fields of a task under arbitrary inputs, within one instant.
StatusInputs == {"todo", "in_progress", "done", "bogus"}
PriorityInputs == {None, Some("low"), Some("high"), Some("urgent"), Some("bogus")}
EstimateInputs == {None, Some(-5), Some(30), Some(10079), Some(999999)}
\* The priority and estimate an edit of a task sends together.
EditInputs == {<<None, None>>, <<Some("low"), Some(-5)>>, <<Some("urgent"), Some(30)>>, <<Some("bogus"), Some(999999)>>}

TaskRecord(id, status, priority, time_estimate_minutes) ==
    [BackupTask(id, status, None, None, None)
        EXCEPT !.priority = priority, !.time_estimate_minutes = time_estimate_minutes]

\* Task records a backup file may carry.
TaskRecords ==
    { TaskRecord(None, "bogus", None, None),
      TaskRecord(Some(1), "in_progress", Some("high"), Some(999999)),
      TaskRecord(Some(1), "done", Some("bogus"), Some(-5)) }

InitTaskFields ==
    /\ Serving
    /\ foreign_keys \in BOOLEAN

NextTaskFields ==
    \/ \E id \in 1..MaxTasks, st \in StatusInputs : update_task_status(id, st)
    \/ \E id \in 1..MaxTasks : start_task_timer(id)
    \/ \E id \in 1..MaxTasks, st \in StatusInputs, edit \in EditInputs :
          update_task(id, "t", "d", st, edit[1], None, edit[2])
    \/ \E st \in StatusInputs, pr \in PriorityInputs, est \in EstimateInputs :
          create_task("t", "d", st, pr, None, est)
    \/ \E record \in TaskRecords, replace_existing \in BOOLEAN :
          import_backup([EmptyPayload EXCEPT !.tasks = << record >>],
                        replace_existing, 0)

SpecTaskFields == InitTaskFields /\ [][NextTaskFields]_vars

\* The stored fields of a goal under arbitrary inputs, within one instant.
GoalStatusInputs == {None, Some("paused"), Some("completed"), Some("archived"), Some("bogus")}
ProgressInputs == {None, Some(-1), Some(50), Some(150)}

\* Goal records a backup file may carry.
GoalRecords ==
    { BackupGoal(None, Some("completed"), Some(150)),
      BackupGoal(Some(1), Some("bogus"), Some(50)),
      BackupGoal(Some(2), None, Some(-1)),
      BackupGoal(Some(2), Some("completed"), None) }

InitGoals ==
    /\ Serving
    /\ foreign_keys \in BOOLEAN

NextGoals ==
    \/ \E st \in GoalStatusInputs, pg \in ProgressInputs :
          create_goal("g", "", st, pg, None)
    \/ \E id \in 1..MaxId, st \in GoalStatusInputs, pg \in ProgressInputs :
          update_goal(id, "g", "", st, pg, None)
    \/ \E id \in 1..MaxId : delete_goal(id)
    \/ \E record \in GoalRecords, replace_existing \in BOOLEAN :
          import_backup([EmptyPayload EXCEPT !.goals = << record >>],
                        replace_existing, 0)

SpecGoals == InitGoals /\ [][NextGoals]_vars

\* The stored fields of a habit under arbitrary inputs, within one instant.
TargetInputs == {None, Some(0), Some(7), Some(99)}
ColorInputs == {None, Some(""), Some(" "), Some("#fff"), Some(" #fff ")}

\* Habit records a backup file may carry.
HabitRecords ==
    { BackupHabit(None, Some(0), Some(" ")),
      BackupHabit(Some(1), Some(99), None),
      BackupHabit(Some(2), None, Some("#fff")),
      BackupHabit(Some(2), Some(7), Some("")) }

InitHabitFields ==
    /\ Serving
    /\ foreign_keys \in BOOLEAN

NextHabitFields ==
    \/ \E target \in TargetInputs, color \in ColorInputs :
          create_habit("h", "", target, color)
    \/ \E id \in 1..MaxId, target \in TargetInputs, color \in ColorInputs :
          update_habit(id, "h", "", target, color)
    \/ \E record \in HabitRecords, replace_existing \in BOOLEAN :
          import_backup([EmptyPayload EXCEPT !.habits = << record >>],
                        replace_existing, 0)

SpecHabitFields == InitHabitFields /\ [][NextHabitFields]_vars

\* The timer of a task under the task commands and the clock. A backup file
\* brings in the timers no command writes: a start stamp that does not parse,
\* and one that lies ahead of the clock.
TimerStatuses == {"todo", "done"}

TimerRecords ==
    { BackupTask(Some(1), "in_progress", None, Some(BadStamp), Some(1)),
      BackupTask(Some(1), "todo", None, Some(MaxNow), Some(1)) }

InitTimer ==
    /\ Serving
    /\ foreign_keys = FALSE

NextTimer ==
    \/ Tick
    \/ create_task("t", "d", "todo", None, None, None)
    \/ \E id \in 1..MaxTasks, status \in TimerStatuses :
          update_task(id, "u", "d", status, None, None, None)
    \/ \E id \in 1..MaxTasks, status \in TimerStatuses : update_task_status(id, status)
    \/ \E id \in 1..MaxTasks : start_task_timer(id)
    \/ \E id \in 1..MaxTasks : pause_task_timer(id)
    \/ \E id \in 1..MaxTasks : reset_task_timer(id)
    \/ \E record \in TimerRecords :
          import_backup([EmptyPayload EXCEPT !.tasks = << record >>], FALSE, 0)

SpecTimer == InitTimer /\ [][NextTimer]_vars

----------------------------------------------------------------------------
(* commands.rs: the habit statistics of get_habits *)

\* A date string is a day number; day + Unpadded is the spelling of the day
\* without leading zeros ("2024-1-4"), which %Y-%m-%d parses to the same day.
Unpadded == 100

\* NaiveDate::parse_from_str(date, "%Y-%m-%d").ok(): the day, or BadDate.
ParseDate(date) ==
    IF date = BadDate THEN BadDate
    ELSE IF date >= Unpadded THEN date - Unpadded
    ELSE date

\* The weekday of day 0, as days from Monday: day 0 is a Sunday.
EpochWeekday == 6

\* today.weekday().num_days_from_monday()
DaysFromMonday(day) == (day + EpochWeekday) % 7

\* Lines 185-189: the loop that walks back from cursor.
RECURSIVE StreakFrom(_, _)
StreakFrom(parsed_dates, cursor) ==
    IF cursor \in parsed_dates THEN 1 + StreakFrom(parsed_dates, cursor - 1) ELSE 0

\* The streak starts at yesterday only, never at today.
StreakFromYesterday(completed_dates, today) ==
    LET parsed_dates == {ParseDate(completed_dates[k]) : k \in DOMAIN completed_dates} \ {BadDate}
    IN StreakFrom(parsed_dates, today - 1)

compute_current_streak(completed_dates, today) ==
    LET parsed_dates == {ParseDate(completed_dates[k]) : k \in DOMAIN completed_dates} \ {BadDate}
        yesterday == today - 1
    IN IF parsed_dates = {} THEN 0
       ELSE IF today \in parsed_dates THEN StreakFrom(parsed_dates, today)
       ELSE IF yesterday \in parsed_dates THEN StreakFrom(parsed_dates, yesterday)
       ELSE 0

\* The window runs eight days, through the following Monday.
WeekCountThroughMonday(completed_dates, today) ==
    LET week_start == today - DaysFromMonday(today)
    IN Cardinality({k \in DOMAIN completed_dates :
                       /\ ParseDate(completed_dates[k]) # BadDate
                       /\ ParseDate(completed_dates[k]) >= week_start
                       /\ ParseDate(completed_dates[k]) <= week_start + 7})

compute_this_week_count(completed_dates, today) ==
    LET week_start == today - DaysFromMonday(today)
        week_end == week_start + 6
    IN Cardinality({k \in DOMAIN completed_dates :
                       /\ ParseDate(completed_dates[k]) # BadDate
                       /\ ParseDate(completed_dates[k]) >= week_start
                       /\ ParseDate(completed_dates[k]) <= week_end})

\* SELECT date FROM habit_logs WHERE habit_id = ?1 ORDER BY date DESC
RECURSIVE DatesDesc(_)
DatesDesc(S) ==
    IF S = {} THEN << >>
    ELSE <<SetMax(S)>> \o DatesDesc(S \ {SetMax(S)})

\* What get_habits returns for each habit, lines 919-946; clock is the
\* instant Utc::now() reads.
HabitWithLogs(d, clock) ==
    LET hs == get_habits(d)
    IN [k \in DOMAIN hs |->
          LET completed_dates == DatesDesc(hs[k][3])
          IN [id |-> hs[k][1],
              completed_dates |-> completed_dates,
              current_streak |-> compute_current_streak(completed_dates, Today(clock)),
              this_week_count |-> compute_this_week_count(completed_dates, Today(clock))]]

\* The get_habits command: the store is read, not written.
invoke_get_habits ==
    /\ Published
    /\ result' = [ok |-> TRUE, habits |-> HabitWithLogs(db, now)]
    /\ UNCHANGED <<schema, schema_migrations, mig, hist, now, foreign_keys, db, lock, wk, serial>>

\* The statistics over every set of logged days of one habit and every day
\* the clock can stand on.
MaxDay == 8
StreakDays == 0..MaxDay
DateStrings == StreakDays \cup {Unpadded + 3}

LogTable(S) ==
    [i \in 1..Cardinality(S) |->
        [habit_id |-> 1, date |-> DatesDesc(S)[i], created_at |-> 0]]

InitStreak ==
    /\ schema = LatestSchema
    /\ schema_migrations = [v \in 1..LatestVersion |-> 0]
    /\ mig = [phase |-> "serving", v |-> LatestVersion,
              i |-> Len(MigrationBody(LatestVersion)), run |-> 1, at |-> ""]
    /\ hist = [attempted |-> [v \in 1..LatestVersion |-> v],
               bodyStmts |-> 16,
               startSchema |-> {},
               startMigrations |-> << >>,
               stepSchema |-> LatestSchema \ StepObjects(LatestVersion),
               stepMigrations |-> [v \in 1..(LatestVersion - 1) |-> 0]]
    /\ \E today \in StreakDays : now = today * TicksPerDay
    /\ \E S \in SUBSET DateStrings :
          db = [EmptyDb EXCEPT
                   !.habits = << [title |-> "h", description |-> "",
                                  target_per_week |-> DefaultTargetPerWeek,
                                  color |-> DefaultHabitColor,
                                  created_at |-> 0, updated_at |-> 0] >>,
                   !.habit_logs = LogTable(S)]
    /\ foreign_keys = FALSE
    /\ result = NoResult
    /\ lock = NoHolder
    /\ wk = [w \in Workers |-> Idle]
    /\ serial = EmptyDb.tasks

NextStreak ==
    \/ invoke_get_habits
    \/ \E date \in DateStrings, completed \in BOOLEAN :
          toggle_habit_completion(1, date, completed)

SpecStreak == InitStreak /\ [][NextStreak]_vars

\* Entries re-saved by the command and by a merging import, over time.
EntryRecords ==
    { BackupEntry(date, "B", "B", created_at) : date \in Dates, created_at \in {None, Some(0)} }

InitEntryStamps ==
    /\ Serving
    /\ foreign_keys = FALSE

NextEntryStamps ==
    \/ Tick
    \/ \E date \in Dates, text \in Texts : save_entry(date, text, text)
    \/ \E date \in Dates : delete_entry(date)
    \/ \E record \in EntryRecords :
          import_backup([EmptyPayload EXCEPT !.entries = << record >>], FALSE, 0)

SpecEntryStamps == InitEntryStamps /\ [][NextEntryStamps]_vars

\* The timer commands over a store that holds one task more than the task
\* commands of the other specifications create.
TimerIds == 1..(MaxTasks + 1)

InitReset ==
    /\ schema = LatestSchema
    /\ schema_migrations = [v \in 1..LatestVersion |-> 0]
    /\ mig = [phase |-> "serving", v |-> LatestVersion,
              i |-> Len(MigrationBody(LatestVersion)), run |-> 1, at |-> ""]
    /\ hist = [attempted |-> [v \in 1..LatestVersion |-> v],
               bodyStmts |-> 16,
               startSchema |-> {},
               startMigrations |-> << >>,
               stepSchema |-> LatestSchema \ StepObjects(LatestVersion),
               stepMigrations |-> [v \in 1..(LatestVersion - 1) |-> 0]]
    /\ now = 0
    /\ \E status \in [TimerIds -> TimerStatuses] :
          db = [EmptyDb EXCEPT
                   !.tasks = [i \in TimerIds |->
                                 NewTask("t", "d", status[i], None, None, None, 0)]]
    /\ foreign_keys = FALSE
    /\ result = NoResult
    /\ lock = NoHolder
    /\ wk = [w \in Workers |-> Idle]
    /\ serial = EmptyDb.tasks

NextReset ==
    \/ Tick
    \/ \E id \in TimerIds : start_task_timer(id)
    \/ \E id \in TimerIds : pause_task_timer(id)
    \/ \E id \in TimerIds : reset_task_timer(id)

SpecReset == InitReset /\ [][NextReset]_vars

\* Pages created, edited and deleted over time.
InitPages ==
    /\ Serving
    /\ foreign_keys = FALSE

NextPages ==
    \/ Tick
    \/ \E content \in Texts : create_page("p", content)
    \/ \E id \in 1..MaxId, content \in Texts : update_page(id, "p", content)
    \/ \E id \in 1..MaxId : delete_page(id)

SpecPages == InitPages /\ [][NextPages]_vars

\* The seconds a task has accumulated, under the task commands, the clock and
\* backup files that carry every kind of timer_accumulated_seconds: absent,
\* negative, and the largest i64, with the timer running or not and a start
\* stamp behind or ahead of the clock.
SecondsRecords ==
    { BackupTask(Some(1), "todo", None, None, None),
      BackupTask(Some(1), "todo", None, Some(MaxNow), Some(-1)),
      BackupTask(Some(1), "in_progress", None, Some(0), Some(i64_MAX)),
      BackupTask(Some(1), "done", None, Some(0), Some(i64_MAX)) }

InitSeconds ==
    /\ Serving
    /\ foreign_keys = FALSE

NextSeconds ==
    \/ Tick
    \/ create_task("t", "d", "todo", None, None, None)
    \/ \E id \in 1..MaxTasks, status \in TimerStatuses :
          update_task(id, "u", "d", status, None, None, None)
    \/ \E id \in 1..MaxTasks, status \in TimerStatuses : update_task_status(id, status)
    \/ \E id \in 1..MaxTasks : start_task_timer(id)
    \/ \E id \in 1..MaxTasks : pause_task_timer(id)
    \/ \E id \in 1..MaxTasks : reset_task_timer(id)
    \/ \E record \in SecondsRecords :
          import_backup([EmptyPayload EXCEPT !.tasks = << record >>], FALSE, 0)

SpecSeconds == InitSeconds /\ [][NextSeconds]_vars

\* The Migration Runner on the database file of a release that had the
\* steps 1..k only (k = 0: no file yet), a row in each table that release
\* had.  A task row has the columns the release knew.
SchemaAt(k) ==
    IF k = 0 THEN {}
    ELSE {Table("schema_migrations")}
           \cup {Column("schema_migrations", c) : c \in BaseColumns("schema_migrations")}
           \cup UNION {StepObjects(v) : v \in 1..k}

StoredRow(t) ==
    CASE t = "entries" -> [date |-> "2024-01-01", yesterday |-> "A", today |-> "B",
                           created_at |-> 0]
      [] t = "pages" -> [title |-> "p", content |-> "A", created_at |-> 0, updated_at |-> 0]
      [] t = "tasks" -> [title |-> "t", description |-> "d", status |-> "done",
                         priority |-> "high", due_date |-> Some("2024-01-01"),
                         completed_at |-> Some(0), time_estimate_minutes |-> 30,
                         timer_started_at |-> None, timer_accumulated_seconds |-> 1,
                         created_at |-> 0, updated_at |-> 0]
      [] t = "goals" -> [title |-> "g", description |-> "d", status |-> "active",
                         progress |-> 50, target_date |-> None,
                         created_at |-> 0, updated_at |-> 0]
      [] t = "habits" -> [title |-> "h", description |-> "d", target_per_week |-> 5,
                          color |-> "#60a5fa", created_at |-> 0, updated_at |-> 0]
      [] t = "habit_logs" -> [habit_id |-> 1, date |-> 0, created_at |-> 0]

RowAt(k, t) ==
    LET row == StoredRow(t)
    IN [c \in {x \in DOMAIN row : Column(t, x) \in SchemaAt(k)} |-> row[c]]

StoreAt(k) ==
    [t \in DOMAIN EmptyDb |->
        IF Table(t) \in SchemaAt(k) THEN (1 :> RowAt(k, t)) ELSE << >>]

InitUpgrade ==
    /\ \E k \in 0..LatestVersion :
          /\ schema = SchemaAt(k)
          /\ schema_migrations = [v \in 1..k |-> 0]
          /\ db = StoreAt(k)
    /\ mig = [phase |-> "init", v |-> 0, i |-> 0, run |-> 1, at |-> ""]
    /\ hist = EmptyHist
    /\ now = 0
    /\ foreign_keys = FALSE
    /\ result = NoResult
    /\ lock = NoHolder
    /\ wk = [w \in Workers |-> Idle]
    /\ serial = EmptyDb.tasks

NextUpgrade ==
    \/ init_open
    \/ run_migrations_table
    \/ apply_migration_check
    \/ apply_migration_body
    \/ apply_migration_record
    \/ manage_state
    \/ Relaunch

SpecUpgrade == InitUpgrade /\ [][NextUpgrade]_vars

\* Merging imports into a store that has a row of id 1 in every table.  The
\* payloads bring records under new keys, under the keys the store has,
\* under other ids, and habit logs whose date does not parse or whose id is
\* that of a stored log.
NewKeysPayload ==
    [entries |-> << BackupEntry("2024-01-02", "C", "D", None) >>,
     pages |-> << BackupPage(None, "q", "y") >>,
     tasks |-> << >>,
     goals |-> << BackupGoal(None, Some("paused"), Some(10)) >>,
     habits |-> << BackupHabit(None, Some(3), None) >>,
     habit_logs |-> << BackupHabitLog(None, 1, 1) >>]

SameKeysPayload ==
    [entries |-> << BackupEntry("2024-01-01", "C", "D", None) >>,
     pages |-> << BackupPage(Some(1), "q", "y") >>,
     tasks |-> << BackupTask(Some(1), "todo", None, None, None) >>,
     goals |-> << BackupGoal(Some(1), Some("paused"), Some(10)) >>,
     habits |-> << BackupHabit(Some(1), Some(3), None) >>,
     habit_logs |-> << BackupHabitLog(None, 1, 0) >>]

OtherIdsPayload ==
    [EmptyPayload EXCEPT
        !.pages = << BackupPage(Some(2), "q", "y") >>,
        !.goals = << BackupGoal(Some(2), Some("paused"), Some(10)) >>,
        !.habits = << BackupHabit(Some(2), Some(3), None) >>,
        !.habit_logs = << BackupHabitLog(Some(2), 2, 0) >>]

UndatedLogPayload ==
    [EmptyPayload EXCEPT !.habit_logs = << BackupHabitLog(None, 1, BadDate) >>]

MovedLogPayload ==
    [EmptyPayload EXCEPT !.habit_logs = << BackupHabitLog(Some(1), 1, 1) >>]

FramePayloads ==
    {NewKeysPayload, SameKeysPayload, OtherIdsPayload, UndatedLogPayload, MovedLogPayload}

InitFrame ==
    /\ schema = LatestSchema
    /\ schema_migrations = [v \in 1..LatestVersion |-> 0]
    /\ mig = [phase |-> "serving", v |-> LatestVersion,
              i |-> Len(MigrationBody(LatestVersion)), run |-> 1, at |-> ""]
    /\ hist = [attempted |-> [v \in 1..LatestVersion |-> v],
               bodyStmts |-> 16,
               startSchema |-> {},
               startMigrations |-> << >>,
               stepSchema |-> LatestSchema \ StepObjects(LatestVersion),
               stepMigrations |-> [v \in 1..(LatestVersion - 1) |-> 0]]
    /\ now = 0
    /\ db = StoreAt(LatestVersion)
    /\ foreign_keys = FALSE
    /\ result = NoResult
    /\ lock = NoHolder
    /\ wk = [w \in Workers |-> Idle]
    /\ serial = EmptyDb.tasks

NextFrame ==
    \/ Tick
    \/ \E payload \in FramePayloads : import_backup(payload, FALSE, 0)

SpecFrame == InitFrame /\ [][NextFrame]_vars

\* The update and delete commands of every table, called with ids and dates
\* that rows have and that no row has, beside the commands that create the
\* rows.  Every edit writes what the row already holds.
RowIds == 1..MaxId

InitMissing ==
    /\ Serving
    /\ foreign_keys \in BOOLEAN

NextMissing ==
    \/ save_entry("2024-01-01", "A", "B")
    \/ \E date \in Dates : delete_entry(date)
    \/ create_page("p", "A")
    \/ \E id \in RowIds : update_page(id, "p", "A")
    \/ \E id \in RowIds : delete_page(id)
    \/ create_task("t", "d", "todo", None, None, None)
    \/ \E id \in RowIds : update_task(id, "t", "d", "todo", None, None, None)
    \/ \E id \in RowIds : update_task_status(id, "todo")
    \/ \E id \in RowIds : reset_task_timer(id)
    \/ \E id \in RowIds : delete_task(id)
    \/ create_goal("g", "d", None, None, None)
    \/ \E id \in RowIds : update_goal(id, "g", "d", None, None, None)
    \/ \E id \in RowIds : delete_goal(id)
    \/ create_habit("h", "d", None, None)
    \/ \E id \in RowIds : update_habit(id, "h", "d", None, None)
    \/ \E id \in RowIds : delete_habit(id, 0)
    \/ \E habit_id \in RowIds : toggle_habit_completion(habit_id, 0, TRUE)

SpecMissing == InitMissing /\ [][NextMissing]_vars

\* Launches on one database file, of which the last is a launch in which no
\* statement fails: no step of it takes the error return.  The launches
\* before it fail wherever they may.  The code of init and run_migrations
\* runs to its end on its own thread (weak fairness of its steps).
RunnerStep ==
    \/ init_open
    \/ run_migrations_table
    \/ apply_migration_check
    \/ apply_migration_body
    \/ apply_migration_record

LastRun == mig.run = MaxRuns

NoStatementFails == LastRun => mig'.phase # "aborted"

InitRecovery == InitMig

NextRecovery ==
    \/ init_open /\ NoStatementFails
    \/ run_migrations_table /\ NoStatementFails
    \/ apply_migration_check /\ NoStatementFails
    \/ apply_migration_body /\ NoStatementFails
    \/ apply_migration_record /\ NoStatementFails
    \/ manage_state
    \/ Relaunch

SpecRecovery ==
    /\ InitRecovery
    /\ [][NextRecovery]_vars
    /\ WF_vars(RunnerStep /\ NoStatementFails)
    /\ WF_vars(manage_state)

----------------------------------------------------------------------------
(* commands.rs: commands invoked on separate threads.  Each command is     *)
(* `let conn = state.db.lock()`, `let now = Utc::now()`, its SELECTs, its  *)
(* write, and the drop of the guard when the function returns.             *)

ReadingOps == {"update_task_status", "start_task_timer", "pause_task_timer"}

ConcCommands ==
    {[op |-> "create_task", id |-> 0, status |-> "in_progress"]}
    \cup {[op |-> o, id |-> id, status |-> ""] :
            o \in {"start_task_timer", "pause_task_timer"}, id \in 1..MaxTasks}
    \cup {[op |-> "update_task_status", id |-> id, status |-> "done"] :
            id \in 1..MaxTasks}

PendingCreates ==
    Cardinality({w \in Workers : wk[w].pc # "idle" /\ wk[w].cmd.op = "create_task"})

\* The frontend invokes a command: Tauri runs it on a thread of its own.
ConcInvoke(w, cmd) ==
    /\ Published
    /\ wk[w].pc = "idle"
    /\ cmd.op = "create_task" => NextRowId(db.tasks) + PendingCreates <= MaxTasks
    /\ wk' = [wk EXCEPT ![w] = [Idle EXCEPT !.pc = "lock", !.cmd = cmd]]
    /\ UNCHANGED <<schema, schema_migrations, mig, hist, now, foreign_keys, db, result,
                   lock, serial>>

LockAlwaysFree == TRUE

\* Mutex::lock returns only while no other guard is alive.
LockFree == lock = NoHolder

\* state.db.lock(), then `let now = Utc::now()`.
ConcAcquire(w) ==
    /\ wk[w].pc = "lock"
    /\ LockFree
    /\ lock' = w
    /\ wk' = [wk EXCEPT ![w].pc = IF wk[w].cmd.op \in ReadingOps THEN "read" ELSE "write",
                        ![w].stamp = now]
    /\ UNCHANGED <<schema, schema_migrations, mig, hist, now, foreign_keys, db, result,
                   serial>>

\* start_task_timer returns after its SELECT when the task is missing or its
\* timer runs (lines 668-674), pause_task_timer when the task is missing or
\* its timer is stopped (lines 710-716).
EarlyReturn(cmd, read) ==
    CASE cmd.op = "start_task_timer" -> ~read.found \/ read.timer_started_at # None
      [] cmd.op = "pause_task_timer" -> ~read.found \/ read.timer_started_at = None
      [] OTHER -> FALSE

\* The SELECTs of the command.
ConcRead(w) ==
    /\ wk[w].pc = "read"
    /\ LET read == ReadTask(db.tasks, wk[w].cmd.id)
       IN wk' = [wk EXCEPT ![w].read = read,
                           ![w].pc = IF EarlyReturn(wk[w].cmd, read)
                                     THEN "release" ELSE "write"]
    /\ UNCHANGED <<schema, schema_migrations, mig, hist, now, foreign_keys, db, result,
                   lock, serial>>

\* The INSERT or UPDATE of the command, from what it read.  The tasks of
\* these threads come from create_task alone: their seconds are at most
\* MaxNow and no addition leaves i64.
Written(tasks, cmd, read, stamp, clock) ==
    CASE cmd.op = "create_task" ->
            Put(tasks, NextRowId(tasks),
                NewTask("t", "d", cmd.status, None, None, None, stamp))
      [] cmd.op = "update_task_status" ->
            UpdateStatusRows(tasks, cmd.id, cmd.status, read, stamp, clock)
      [] cmd.op = "start_task_timer" ->
            StartTimerRows(tasks, cmd.id, read, stamp)
      [] cmd.op = "pause_task_timer" ->
            PauseTimerRows(tasks, cmd.id, read, stamp, clock)

\* `serial` takes the same command run alone: its SELECTs and its write in
\* one step.
ConcWrite(w) ==
    /\ wk[w].pc = "write"
    /\ db' = [db EXCEPT !.tasks =
                 Written(@, wk[w].cmd, wk[w].read, wk[w].stamp, now)]
    /\ serial' = Written(serial, wk[w].cmd, ReadTask(serial, wk[w].cmd.id),
                         wk[w].stamp, now)
    /\ result' = Ok(wk[w].cmd.op)
    /\ wk' = [wk EXCEPT ![w].pc = "release"]
    /\ UNCHANGED <<schema, schema_migrations, mig, hist, now, foreign_keys, lock>>

\* The command returns and its MutexGuard is dropped.
ConcRelease(w) ==
    /\ wk[w].pc = "release"
    /\ lock' = NoHolder
    /\ wk' = [wk EXCEPT ![w] = Idle]
    /\ UNCHANGED <<schema, schema_migrations, mig, hist, now, foreign_keys, db, result,
                   serial>>

InitConc ==
    /\ Serving
    /\ foreign_keys = FALSE

NextConc ==
    \/ Tick
    \/ \E w \in Workers, cmd \in ConcCommands : ConcInvoke(w, cmd)
    \/ \E w \in Workers : ConcAcquire(w)
    \/ \E w \in Workers : ConcRead(w)
    \/ \E w \in Workers : ConcWrite(w)
    \/ \E w \in Workers : ConcRelease(w)

SpecConc == InitConc /\ [][NextConc]_vars

----------------------------------------------------------------------------
(* Claims *)

\* C1: no stored task has status done together with a non-null
\* timer_started_at, whatever sequence of create_task, update_task,
\* update_task_status, start/pause/reset_task_timer and import_backup ran.
C1_TimerNeverRunningWhileDone ==
    \A id \in DOMAIN db.tasks :
        ~(db.tasks[id].status = "done" /\ db.tasks[id].timer_started_at # None)

\* A done task whose accumulated seconds hold a folded running timer.
C1_Witness ==
    \E id \in DOMAIN db.tasks :
        /\ db.tasks[id].status = "done"
        /\ db.tasks[id].timer_started_at = None
        /\ db.tasks[id].timer_accumulated_seconds >= 2
        /\ db.tasks[id].updated_at = now

\* C3: a stored task has a non-null completed_at if and only if its status
\* is done.
C3_CompletedAtIffDone ==
    \A id \in DOMAIN db.tasks :
        (db.tasks[id].completed_at # None) <=> (db.tasks[id].status = "done")

\* C4: save_entry inserts a row when no entry has the date; otherwise it
\* overwrites yesterday and today only, keeping id and created_at; either
\* way exactly one row has the date afterwards, no date has two rows and
\* the rows of other dates are untouched.
C4_EntryUpsert ==
    [][\A date \in Dates, yesterday \in Texts, today \in Texts :
          save_entry(date, yesterday, today) =>
             LET before == EntryWithDate(db.entries, date)
                 after == EntryWithDate(db'.entries, date)
             IN /\ Cardinality(after) = 1
                /\ \A i \in after :
                      /\ db'.entries[i].yesterday = yesterday
                      /\ db'.entries[i].today = today
                      /\ IF before = {}
                         THEN /\ db'.entries[i].created_at = now
                              /\ i \notin DOMAIN db.entries
                         ELSE /\ i \in before
                              /\ db'.entries[i].created_at = db.entries[i].created_at
                /\ DOMAIN db'.entries = DOMAIN db.entries \cup after
                /\ \A i \in DOMAIN db.entries \ before : db'.entries[i] = db.entries[i]
                /\ \A d \in Dates : Cardinality(EntryWithDate(db'.entries, d)) <= 1]_vars

\* An entry saved at an earlier instant that holds the re-saved content,
\* beside an entry of another date.
C4_Witness ==
    \E i, j \in DOMAIN db.entries :
        /\ i # j
        /\ db.entries[i].created_at < now
        /\ db.entries[i].yesterday = "C"
        /\ db.entries[i].today = "C"
        /\ db.entries[j].created_at = now

\* C2: import_backup is one transaction: when any statement of the call
\* fails (a constraint violation, a storage error, a failed commit) the call
\* returns an error and all six tables are what they were before the call.
C2_ImportAtomicity ==
    [][\A payload \in ImportPayloads, replace_existing \in BOOLEAN :
          \A io_fail \in 0..(Len(ImportStatements(payload, replace_existing)) + 1) :
              import_backup(payload, replace_existing, io_fail) =>
                 LET stmts == ImportStatements(payload, replace_existing)
                     run == RunImport(db, stmts, 1, io_fail, now, foreign_keys)
                 IN IF run.ok /\ io_fail # Len(stmts) + 1
                    THEN result'.ok /\ db' = run.db
                    ELSE ~result'.ok /\ db' = db]_vars

\* After a failed import every table still holds rows, the habit log among
\* them.
C2_Witness ==
    /\ ~result.ok
    /\ \A t \in DOMAIN db : db[t] # << >>

\* C5: a run of the Migration Runner on a database on which all five
\* versions are recorded leaves the schema and the schema_migrations rows
\* (versions and applied_at) as they were and executes no body statement.
C5_MigrationIdempotence ==
    (mig.phase # "init" /\ DOMAIN hist.startMigrations = 1..LatestVersion) =>
        /\ schema = hist.startSchema
        /\ schema_migrations = hist.startMigrations
        /\ hist.bodyStmts = 0

\* A second run went through all five steps on a migrated database, at a
\* later instant than the first.
C5_Witness ==
    /\ mig.phase = "serving"
    /\ mig.run = 2
    /\ DOMAIN hist.startMigrations = 1..LatestVersion
    /\ Len(hist.attempted) = LatestVersion
    /\ now > 0

\* C6: a version is recorded in schema_migrations only if every schema
\* change of its step was executed: all objects of the step exist.
C6_RecordedOnlyIfBodyRan ==
    \A v \in Versions : StepObjects(v) \subseteq schema

\* A step failed in its body after some of its statements ran, and is not
\* recorded.
C6_Witness ==
    /\ mig.phase = "aborted"
    /\ mig.at = "body"
    /\ mig.i > 1
    /\ mig.v \notin Versions
    /\ Versions # {}

\* C7 as stated: a step is a transaction, so after a step fails midway the
\* schema and schema_migrations are what they were when the step began.
C7_StepIsTransaction ==
    (mig.phase = "aborted" /\ mig.at \in {"body", "record"}) =>
        /\ schema = hist.stepSchema
        /\ schema_migrations = hist.stepMigrations

\* C7 as amended: a step is not a transaction.  After a step fails midway
\* its version is not recorded and schema_migrations is what it was when
\* the step began, but the statements that ran before the failure have taken
\* effect: the schema is the step's starting schema with that prefix of the
\* body applied, and loses nothing.
C7_StepFailureKeepsPrefix ==
    (mig.phase = "aborted" /\ mig.at \in {"body", "record"}) =>
        /\ mig.v \notin Versions
        /\ schema_migrations = hist.stepMigrations
        /\ hist.stepSchema \subseteq schema
        /\ schema = RunBody(hist.stepSchema, MigrationBody(mig.v),
                            IF mig.at = "body" THEN mig.i - 1
                            ELSE Len(MigrationBody(mig.v)))

\* Step 1 failed after creating entries and pages but before creating tasks.
C7_Witness ==
    /\ mig.phase = "aborted"
    /\ mig.at = "body"
    /\ mig.v = 1
    /\ mig.i = 3
    /\ Table("entries") \in schema
    /\ Table("tasks") \notin schema

\* C8: in every run the steps are attempted in the order 1, 2, 3, ...; a
\* step is attempted only after every earlier step returned Ok, so the first
\* failing step is the last one attempted; and the recorded versions are
\* always a prefix 1..k of the known sequence.
C8_MigrationOrdering ==
    /\ Versions = 1..Cardinality(Versions)
    /\ hist.attempted = [k \in 1..Len(hist.attempted) |-> k]
    /\ \A k \in 1..(Len(hist.attempted) - 1) : k \in Versions
    /\ (mig.phase \in StepPhases \/ (mig.phase = "aborted" /\ mig.at \in StepPhases)) =>
          /\ Len(hist.attempted) >= mig.v - (IF mig.phase = "apply" THEN 1 ELSE 0)
          /\ Len(hist.attempted) <= mig.v

\* A relaunch after a failed run skipped steps 1 and 2 and failed in step 3.
C8_Witness ==
    /\ mig.run = 2
    /\ mig.phase = "aborted"
    /\ mig.at \in StepPhases
    /\ mig.v = 3
    /\ Versions = {1, 2}
    /\ hist.bodyStmts <= 1

FullyMigrated ==
    /\ DOMAIN schema_migrations = 1..LatestVersion
    /\ schema = LatestSchema

\* C9: the connection is published only when init has returned Ok, with all
\* five versions recorded and the latest schema in place, and a command
\* changes the store or returns only while it is published; a failed
\* startup publishes nothing.
C9_NoCommandBeforeInit ==
    [][/\ Published' => (FullyMigrated' /\ mig.phase \in {"init_ok", "serving"})
       /\ (db' # db \/ result' # result) => (Published /\ FullyMigrated)
       /\ mig.phase = "aborted" => ~Published']_vars

\* An entry was saved while published; the next launch failed in a
\* migration query and serves nothing.
C9_Witness ==
    /\ db.entries # << >>
    /\ mig.phase = "aborted"
    /\ mig.at \in StepPhases
    /\ mig.run = 2


\* C10: commands invoked on separate threads exclude one another: a thread
\* between acquiring and releasing the database lock is the lock's holder, so
\* there is at most one; and the tasks table always equals the table that the
\* same commands, each run alone in the order of their writes, produce: no
\* read-modify-write command loses or applies twice an update of another.
InCriticalSection(w) == wk[w].pc \in {"read", "write", "release"}

C10_MutualExclusion ==
    /\ \A w \in Workers : InCriticalSection(w) => lock = w
    /\ db.tasks = serial

\* pause_task_timer has read a running timer and is about to write while a
\* mark-done of the same task waits for the lock, the clock having advanced.
C10_Witness ==
    \E w, v \in Workers :
        /\ wk[w].pc = "write"
        /\ wk[w].cmd.op = "pause_task_timer"
        /\ wk[w].read.timer_started_at # None
        /\ now > wk[w].read.timer_started_at[1]
        /\ wk[v].pc = "lock"
        /\ wk[v].cmd = [op |-> "update_task_status", id |-> wk[w].cmd.id, status |-> "done"]


\* C11: exporting all entities, wiping the store and importing the snapshot
\* with replace_existing = true leaves a store whose export equals the first
\* one as a set of records (every exported record carries its id).
C11_BackupRoundTrip ==
    [][BackupRoundTrip => Snapshot(db') = Snapshot(db)]_vars


\* The id a payload record of the kind carries; BackupEntryInput has none.
RecordId(kind, rec) == IF kind = "entries" THEN None ELSE rec.id

\* A record with an id overwrites or inserts the row of that id; a record
\* without one adds a row; no other row changes.
ById(old, new, id) ==
    IF id # None
    THEN /\ DOMAIN new = DOMAIN old \cup {id[1]}
         /\ \A j \in DOMAIN old \ {id[1]} : new[j] = old[j]
    ELSE /\ Cardinality(DOMAIN new) = Cardinality(DOMAIN old) + 1
         /\ DOMAIN old \subseteq DOMAIN new
         /\ \A j \in DOMAIN old : new[j] = old[j]

\* C12 as claimed: in a successful import without replace_existing, for every
\* record kind, a record with an id overwrites or inserts the row with that
\* id and a record without an id always inserts a new row, modifying none.
C12_ImportIdRule ==
    [][\A payload \in KeyPayloads :
          import_backup(payload, FALSE, 0) /\ result'.ok =>
             \A kind \in DOMAIN payload :
                Len(payload[kind]) = 1 =>
                   ById(db[kind], db'[kind], RecordId(kind, payload[kind][1]))]_vars

\* A record keyed by a natural key: it updates the rows that hold the key
\* (none appears, none disappears, no other row changes) or, when no row
\* holds it, adds one row.
ByNaturalKey(old, new, holders) ==
    IF holders # {}
    THEN /\ DOMAIN new = DOMAIN old
         /\ \A j \in DOMAIN old \ holders : new[j] = old[j]
    ELSE ById(old, new, None)

\* C12, amended: the rule holds as claimed for pages, tasks, goals and
\* habits, and for habit logs that carry an id; an entry is keyed by its date
\* (the row of that date is overwritten in place, else a row is inserted) and
\* a habit log without id by its (habit_id, date) pair (the row of that pair
\* keeps its id and gets the record's created_at, else a row is inserted).
C12_ImportKeyRule ==
    [][\A payload \in KeyPayloads :
          import_backup(payload, FALSE, 0) /\ result'.ok =>
             \A kind \in DOMAIN payload :
                Len(payload[kind]) = 1 =>
                   LET rec == payload[kind][1]
                   IN CASE kind = "entries" ->
                             /\ ByNaturalKey(db.entries, db'.entries,
                                             EntryWithDate(db.entries, rec.date))
                             /\ \E i \in EntryWithDate(db'.entries, rec.date) :
                                   /\ db'.entries[i].yesterday = rec.yesterday
                                   /\ db'.entries[i].today = rec.today
                        [] kind = "habit_logs" /\ rec.id = None ->
                             LET date == normalize_habit_date(rec.date, now)
                                 pair == LogWithPair(db.habit_logs, rec.habit_id, date)
                             IN /\ ByNaturalKey(db.habit_logs, db'.habit_logs, pair)
                                /\ LogWithPair(db'.habit_logs, rec.habit_id, date) # {}
                                /\ pair \subseteq LogWithPair(db'.habit_logs, rec.habit_id, date)
                        [] kind = "habit_logs" /\ rec.id # None ->
                             /\ ById(db.habit_logs, db'.habit_logs, rec.id)
                             /\ db'.habit_logs[rec.id[1]].habit_id = rec.habit_id
                        [] OTHER ->
                             /\ ById(db[kind], db'[kind], rec.id)
                             /\ rec.id # None => db'[kind][rec.id[1]].title = rec.title]_vars

\* A page without id was inserted next to the page of id 1, and the goal of
\* id 1 is the one the same payload carries.
C12_Witness ==
    /\ result.ok
    /\ DOMAIN db.pages = {1, 2}
    /\ db.pages[1].title = "p"
    /\ db.pages[2].title = "q"
    /\ 1 \in DOMAIN db.goals
    /\ db.goals[1].status = "paused"
    /\ db.entries # << >>


\* The row of id i is what the import stores for the record: the record's
\* id when it carries one, its own text and its normalized values.
StoresRecord(kind, rec, i, row, clock) ==
    /\ RecordId(kind, rec) # None => RecordId(kind, rec)[1] = i
    /\ CASE kind = "entries" ->
               /\ row.date = rec.date
               /\ row.yesterday = rec.yesterday
               /\ row.today = rec.today
         [] kind = "pages" ->
               /\ row.title = rec.title
               /\ row.content = rec.content
         [] kind = "tasks" ->
               /\ row.title = rec.title
               /\ row.status = normalize_status(rec.status)
               /\ row.priority = normalize_priority(rec.priority)
         [] kind = "goals" ->
               /\ row.title = rec.title
               /\ row.status = normalize_goal_status(rec.status)
         [] kind = "habits" ->
               /\ row.title = rec.title
               /\ row.target_per_week = normalize_target_per_week(rec.target_per_week)
               /\ row.color = normalize_habit_color(rec.color)
         [] kind = "habit_logs" ->
               /\ row.habit_id = rec.habit_id
               /\ row.date = normalize_habit_date(rec.date, clock)

\* C13: after a successful import_backup with replace_existing = true no row
\* from before the call is left: every row of the six tables is the stored
\* form of a record of the payload and every record of the payload has its
\* row; with an empty payload the six tables are empty.
C13_ReplaceExisting ==
    [][\A payload \in KeyPayloads :
          import_backup(payload, TRUE, 0) /\ result'.ok =>
             /\ \A kind \in DOMAIN payload :
                   /\ \A i \in DOMAIN db'[kind] :
                         \E k \in DOMAIN payload[kind] :
                            StoresRecord(kind, payload[kind][k], i, db'[kind][i], now)
                   /\ \A k \in DOMAIN payload[kind] :
                         \E i \in DOMAIN db'[kind] :
                            StoresRecord(kind, payload[kind][k], i, db'[kind][i], now)
                   /\ Cardinality(DOMAIN db'[kind]) <= Len(payload[kind])
             /\ payload = EmptyPayload => db' = EmptyDb]_vars

\* The store holds the records of StampedPayload and nothing else, imported
\* after the clock advanced.
C13_Witness ==
    /\ result.ok
    /\ db.entries = << >>
    /\ db.habit_logs = << >>
    /\ DOMAIN db.pages = {1}
    /\ db.pages[1].title = "q"
    /\ DOMAIN db.habits = {1}
    /\ db.habits[1].created_at > 0


StampedKinds == {"pages", "tasks", "goals", "habits"}

\* The rows a record was written to by the step: the row of its id, or the
\* row the step added.
LandedOn(old, new, id) == IF id # None THEN {id[1]} ELSE DOMAIN new \ DOMAIN old

\* C14 as claimed: an imported page, task, goal or habit without created_at is
\* stored with the import's timestamp as created_at, and one without
\* updated_at with the import's timestamp as updated_at, also when the record
\* has a created_at.
C14_TimestampDefaults ==
    [][\A payload \in KeyPayloads, replace_existing \in BOOLEAN :
          import_backup(payload, replace_existing, 0) /\ result'.ok =>
             \A kind \in StampedKinds :
                Len(payload[kind]) = 1 =>
                   LET rec == payload[kind][1]
                   IN \A i \in LandedOn(db[kind], db'[kind], rec.id) :
                         /\ db'[kind][i].created_at = unwrap_or(rec.created_at, now)
                         /\ db'[kind][i].updated_at = unwrap_or(rec.updated_at, now)]_vars

\* C14, amended: created_at is the record's, or the import's timestamp when
\* the record has none; updated_at is the record's, or the stored created_at
\* when the record has none: the record's created_at when it has one and the
\* import's timestamp only when it has neither.
C14_UpdatedDefaultsToCreated ==
    [][\A payload \in KeyPayloads, replace_existing \in BOOLEAN :
          import_backup(payload, replace_existing, 0) /\ result'.ok =>
             \A kind \in StampedKinds :
                Len(payload[kind]) = 1 =>
                   LET rec == payload[kind][1]
                   IN \A i \in LandedOn(db[kind], db'[kind], rec.id) :
                         /\ db'[kind][i].created_at =
                               (IF rec.created_at # None THEN rec.created_at[1] ELSE now)
                         /\ db'[kind][i].updated_at =
                               (IF rec.updated_at # None THEN rec.updated_at[1]
                                ELSE IF rec.created_at # None THEN rec.created_at[1]
                                ELSE now)]_vars

\* StampedPayload was imported at instant 1: its task kept its updated_at 0
\* and got created_at 1, its page and its goal took their created_at 0 as
\* updated_at, its habit got the import's instant for both.
C14_Witness ==
    /\ result.ok
    /\ 1 \in DOMAIN db.tasks /\ 1 \in DOMAIN db.goals /\ 1 \in DOMAIN db.habits
    /\ db.tasks[1].created_at = 1 /\ db.tasks[1].updated_at = 0
    /\ db.goals[1].created_at = 0 /\ db.goals[1].updated_at = 0
    /\ db.goals[1].status = "paused"
    /\ db.habits[1].created_at = 1 /\ db.habits[1].updated_at = 1
    /\ \E i \in DOMAIN db.pages :
          /\ db.pages[i].title = "q"
          /\ db.pages[i].created_at = 0
          /\ db.pages[i].updated_at = 0


\* C15: every habit log belongs to a stored habit: its habit_id is the id of
\* a row of habits.
C15_NoOrphanLogs ==
    \A i \in DOMAIN db.habit_logs : db.habit_logs[i].habit_id \in DOMAIN db.habits


\* C16: a successful delete_habit(id) leaves neither the habit nor a log
\* with habit_id = id, and every other habit and every log of another habit
\* as it was; a delete_habit that fails, at either DELETE or at the commit,
\* leaves the habit and all its logs in place.
C16_HabitCascadeDelete ==
    [][\A id \in 1..MaxId, io_fail \in 0..3 :
          delete_habit(id, io_fail) =>
             IF result'.ok
             THEN /\ id \notin DOMAIN db'.habits
                  /\ \A i \in DOMAIN db'.habit_logs : db'.habit_logs[i].habit_id # id
                  /\ \A j \in DOMAIN db.habits \ {id} :
                        j \in DOMAIN db'.habits /\ db'.habits[j] = db.habits[j]
                  /\ \A i \in DOMAIN db.habit_logs :
                        db.habit_logs[i].habit_id # id =>
                           /\ i \in DOMAIN db'.habit_logs
                           /\ db'.habit_logs[i] = db.habit_logs[i]
             ELSE db' = db]_vars

\* The habit of id 1 was deleted; the habit of id 2 and its log are there.
C16_Witness ==
    /\ result.ok
    /\ DOMAIN db.habits = {2}
    /\ \E i \in DOMAIN db.habit_logs : db.habit_logs[i].habit_id = 2
    /\ \A i \in DOMAIN db.habit_logs : db.habit_logs[i].habit_id # 1

\* UNIQUE(habit_id, date) on the rows of habit_logs.
PairsAreUnique(logs) ==
    \A i, j \in DOMAIN logs :
        (logs[i].habit_id = logs[j].habit_id /\ logs[i].date = logs[j].date) => i = j

\* C17: no two habit logs have the same (habit_id, date), whatever the
\* toggles and imports, with or without explicit log ids; an import whose
\* logs would make two rows of one pair fails and changes nothing.
C17_LogUniqueness ==
    /\ []PairsAreUnique(db.habit_logs)
    /\ [][\A replace_existing \in BOOLEAN :
             import_backup(TwinLogsPayload, replace_existing, 0) =>
                ~result'.ok /\ db' = db]_vars

\* An import failed as a whole while a habit has logs on two dates.
C17_Witness ==
    /\ ~result.ok
    /\ \E i, j \in DOMAIN db.habit_logs :
          /\ db.habit_logs[i].habit_id = db.habit_logs[j].habit_id
          /\ db.habit_logs[i].date # db.habit_logs[j].date


\* What the claims say is stored for an input.
StoredStatus(status) ==
    IF status \in {"todo", "in_progress", "done"} THEN status ELSE "todo"

StoredPriority(priority) ==
    IF priority \in {Some("low"), Some("medium"), Some("high"), Some("urgent")}
    THEN priority[1] ELSE "medium"

StoredEstimate(value) ==
    IF value = None THEN 0
    ELSE IF value[1] < 0 THEN 0
    ELSE IF value[1] > 10080 THEN 10080
    ELSE value[1]

TaskIsNormalized(row) ==
    /\ row.status \in {"todo", "in_progress", "done"}
    /\ row.priority \in {"low", "medium", "high", "urgent"}
    /\ row.time_estimate_minutes >= 0
    /\ row.time_estimate_minutes <= 10080

\* C18: every stored task has status in {todo, in_progress, done}, priority in
\* {low, medium, high, urgent} and time_estimate_minutes in 0..10080, and a
\* task created or imported is stored with any other status as todo, an absent
\* or invalid priority as medium, a negative or absent estimate as 0 and a
\* larger one as 10080.
C18_StoredTaskNormalized ==
    /\ [](\A i \in DOMAIN db.tasks : TaskIsNormalized(db.tasks[i]))
    /\ [][/\ \A st \in StatusInputs, pr \in PriorityInputs, est \in EstimateInputs :
                (result' = Ok("create_task") /\ create_task("t", "d", st, pr, None, est)) =>
                   LET row == db'.tasks[NextRowId(db.tasks)]
                   IN /\ row.status = StoredStatus(st)
                      /\ row.priority = StoredPriority(pr)
                      /\ row.time_estimate_minutes = StoredEstimate(est)
          /\ \A record \in TaskRecords :
                (/\ result' = Ok("import_backup")
                 /\ import_backup([EmptyPayload EXCEPT !.tasks = << record >>], TRUE, 0)) =>
                   /\ db'.tasks[1].status = StoredStatus(record.status)
                   /\ db'.tasks[1].priority = StoredPriority(record.priority)
                   /\ db'.tasks[1].time_estimate_minutes =
                         StoredEstimate(record.time_estimate_minutes)]_vars

\* A task given an estimate above one week is stored with 10080 minutes,
\* status todo and priority medium.
C18_Witness ==
    \E i \in DOMAIN db.tasks :
        /\ db.tasks[i].time_estimate_minutes = MaxEstimateMinutes
        /\ db.tasks[i].status = "todo"
        /\ db.tasks[i].priority = "medium"


StoredGoalStatus(status) ==
    IF status \in {Some("active"), Some("paused"), Some("completed"), Some("archived")}
    THEN status[1] ELSE "active"

StoredProgress(status, progress) ==
    IF StoredGoalStatus(status) = "completed" THEN 100
    ELSE IF progress = None THEN 0
    ELSE IF progress[1] < 0 THEN 0
    ELSE IF progress[1] > 100 THEN 100
    ELSE progress[1]

GoalIsNormalized(row) ==
    /\ row.status \in {"active", "paused", "completed", "archived"}
    /\ row.progress >= 0
    /\ row.progress <= 100
    /\ row.status = "completed" => row.progress = 100

\* C19: after any sequence of create_goal, update_goal and import_backup calls
\* every stored goal has status in {active, paused, completed, archived},
\* progress in 0..100, and progress = 100 whenever status = completed; a goal
\* created or imported with an invalid or absent status is stored as active,
\* and with progress 150 and status completed as 100.
C19_StoredGoalNormalized ==
    /\ [](\A i \in DOMAIN db.goals : GoalIsNormalized(db.goals[i]))
    /\ [][/\ \A st \in GoalStatusInputs, pg \in ProgressInputs :
                (result' = Ok("create_goal") /\ create_goal("g", "", st, pg, None)) =>
                   LET row == db'.goals[NextRowId(db.goals)]
                   IN /\ row.status = StoredGoalStatus(st)
                      /\ row.progress = StoredProgress(st, pg)
          /\ \A record \in GoalRecords :
                (/\ result' = Ok("import_backup")
                 /\ import_backup([EmptyPayload EXCEPT !.goals = << record >>], TRUE, 0)) =>
                   LET row == db'.goals[unwrap_or(record.id, 1)]
                   IN /\ row.status = StoredGoalStatus(record.status)
                      /\ row.progress = StoredProgress(record.status, record.progress)]_vars

\* A completed goal sits next to a goal that is not completed and whose
\* progress is below 100.
C19_Witness ==
    \E i, j \in DOMAIN db.goals :
        /\ db.goals[i].status = "completed"
        /\ db.goals[i].progress = 100
        /\ db.goals[j].status = "active"
        /\ db.goals[j].progress = 0


\* The strings of the model made of whitespace only.
WhitespaceOnly == {"", " "}

StoredTarget(target_per_week) ==
    IF target_per_week = None THEN 5
    ELSE IF target_per_week[1] < 1 THEN 1
    ELSE IF target_per_week[1] > 14 THEN 14
    ELSE target_per_week[1]

StoredColor(color) ==
    IF color = None THEN "#60a5fa"
    ELSE IF color[1] \in WhitespaceOnly THEN "#60a5fa"
    ELSE color[1]

HabitIsNormalized(row) ==
    /\ row.target_per_week >= 1
    /\ row.target_per_week <= 14
    /\ row.color \notin WhitespaceOnly

\* C20: after any sequence of create_habit, update_habit and import_backup
\* calls every stored habit has target_per_week in 1..14 and a color that is
\* not blank; a habit created or imported with an absent target is stored
\* with 5, with 0 as 1 and with 99 as 14, and with an absent or
\* whitespace-only color as "#60a5fa".
C20_StoredHabitNormalized ==
    /\ [](\A i \in DOMAIN db.habits : HabitIsNormalized(db.habits[i]))
    /\ [][/\ \A target \in TargetInputs, color \in ColorInputs :
                (result' = Ok("create_habit") /\ create_habit("h", "", target, color)) =>
                   LET row == db'.habits[NextRowId(db.habits)]
                   IN /\ row.target_per_week = StoredTarget(target)
                      /\ row.color = StoredColor(color)
          /\ \A record \in HabitRecords :
                (/\ result' = Ok("import_backup")
                 /\ import_backup([EmptyPayload EXCEPT !.habits = << record >>], TRUE, 0)) =>
                   LET row == db'.habits[unwrap_or(record.id, 1)]
                   IN /\ row.target_per_week = StoredTarget(record.target_per_week)
                      /\ row.color = StoredColor(record.color)]_vars

\* A habit clamped up to 1 with the default color sits next to a habit
\* clamped down to 14 that kept its own color.
C20_Witness ==
    \E i, j \in DOMAIN db.habits :
        /\ db.habits[i].target_per_week = 1
        /\ db.habits[i].color = DefaultHabitColor
        /\ db.habits[j].target_per_week = MaxTargetPerWeek
        /\ db.habits[j].color = "#fff"


\* No task that the step keeps has fewer accumulated seconds after it.
AccumulatedGrows ==
    \A i \in DOMAIN db.tasks \cap DOMAIN db'.tasks :
        db'.tasks[i].timer_accumulated_seconds >= db.tasks[i].timer_accumulated_seconds

\* The step is one of the four commands that fold or keep the timer.
TimerKeepingStep ==
    \E id \in 1..MaxTasks :
        \/ start_task_timer(id)
        \/ pause_task_timer(id)
        \/ \E status \in TimerStatuses :
              \/ update_task(id, "u", "d", status, None, None, None)
              \/ update_task_status(id, status)

LoggedDays(habit) ==
    {ParseDate(habit.completed_dates[k]) : k \in DOMAIN habit.completed_dates} \ {BadDate}

\* The length of the maximal run of consecutive days of S that ends at day.
RunEndingAt(S, day) ==
    CHOOSE n \in 0..Cardinality(S) :
        /\ \A k \in 0..(n - 1) : (day - k) \in S
        /\ (day - n) \notin S

\* The logs of habit 1 as they are stored.
StoredDates(id) ==
    {db.habit_logs[i].date : i \in {j \in DOMAIN db.habit_logs : db.habit_logs[j].habit_id = id}}

\* C22: current_streak is the length of the maximal run of consecutive
\* logged days ending at today if today is logged, otherwise of the run
\* ending at yesterday if yesterday is logged, otherwise 0; and what
\* get_habits returns is this function of the logs currently stored.
C22_CurrentStreak ==
    "habits" \in DOMAIN result =>
        \A k \in DOMAIN result.habits :
            LET habit == result.habits[k]
                S == LoggedDays(habit)
                today == Today(now)
            IN /\ {habit.completed_dates[j] : j \in DOMAIN habit.completed_dates}
                     = StoredDates(habit.id)
               /\ habit.current_streak =
                     IF today \in S THEN RunEndingAt(S, today)
                     ELSE IF (today - 1) \in S THEN RunEndingAt(S, today - 1)
                     ELSE 0

\* get_habits returned a streak of 2 that ends at yesterday: today is not
\* logged, and an older day beyond a gap is.
C22_Witness ==
    /\ "habits" \in DOMAIN result
    /\ \E k \in DOMAIN result.habits :
          LET S == LoggedDays(result.habits[k])
              today == Today(now)
          IN /\ result.habits[k].current_streak = 2
             /\ today \notin S
             /\ (today - 4) \in S


\* The Monday on or before day.
MondayOnOrBefore(day) ==
    CHOOSE monday \in (day - 6)..day : DaysFromMonday(monday) = 0

\* C23: this_week_count is the number of completion dates d of the habit
\* with weekStart <= d <= weekStart + 6, where weekStart is the Monday on or
\* before today; the preceding Sunday and the following Monday do not count.
C23_ThisWeekCount ==
    "habits" \in DOMAIN result =>
        \A k \in DOMAIN result.habits :
            LET weekStart == MondayOnOrBefore(Today(now))
                inWeek == {date \in StoredDates(result.habits[k].id) :
                              /\ ParseDate(date) >= weekStart
                              /\ ParseDate(date) <= weekStart + 6}
            IN result.habits[k].this_week_count = Cardinality(inWeek)

\* Today is a Wednesday; the preceding Sunday, the Wednesday and the
\* following Monday are logged, and get_habits counted one.
C23_Witness ==
    /\ "habits" \in DOMAIN result
    /\ DaysFromMonday(Today(now)) = 2
    /\ \E k \in DOMAIN result.habits :
          LET weekStart == MondayOnOrBefore(Today(now))
          IN /\ {weekStart - 1, Today(now), weekStart + 7}
                   \subseteq StoredDates(result.habits[k].id)
             /\ result.habits[k].this_week_count = 1


\* The rows that hold date before the step hold it after the step with the
\* created_at they had.
KeepsCreatedAt(date) ==
    \A i \in EntryWithDate(db.entries, date) :
        /\ i \in EntryWithDate(db'.entries, date)
        /\ db'.entries[i].created_at = db.entries[i].created_at

\* C24 as stated: the created_at of an existing entry is changed neither by
\* save_entry of its date nor by import_backup with replace_existing = false
\* carrying an entry of its date.
C24_CreatedAtStable ==
    [][/\ \A date \in Dates, text \in Texts :
             save_entry(date, text, text) => KeepsCreatedAt(date)
       /\ \A record \in EntryRecords :
             import_backup([EmptyPayload EXCEPT !.entries = << record >>], FALSE, 0)
                => KeepsCreatedAt(record.date)]_vars

\* C24, amended: save_entry of the date of an existing entry never changes
\* its created_at; import_backup with replace_existing = false carrying an
\* entry of that date sets the row's created_at to the record's created_at,
\* or to the import's instant when the record has none.
C24_CreatedAtStableUnderSave ==
    [][/\ \A date \in Dates, text \in Texts :
             save_entry(date, text, text) => KeepsCreatedAt(date)
       /\ \A record \in EntryRecords :
             import_backup([EmptyPayload EXCEPT !.entries = << record >>], FALSE, 0)
                => \A i \in EntryWithDate(db.entries, record.date) :
                      /\ i \in EntryWithDate(db'.entries, record.date)
                      /\ db'.entries[i].created_at =
                            IF record.created_at = None THEN now
                            ELSE record.created_at[1]]_vars

\* At a later instant one entry holds re-saved text under its first
\* created_at, and the other holds imported text stamped with the import's
\* instant.
C24_Witness ==
    \E i, j \in DOMAIN db.entries :
        /\ db.entries[i].today = "C"
        /\ db.entries[i].created_at = 0
        /\ db.entries[j].today = "B"
        /\ db.entries[j].created_at = now
        /\ now > 0


\* C25: start_task_timer(id) changes nothing, not even updated_at, when no
\* task has the id or the task's timer is running; otherwise it sets
\* timer_started_at = now, leaves timer_accumulated_seconds unchanged, turns
\* a done task into in_progress with completed_at cleared, and keeps a
\* status other than done.
C25_TimerStart ==
    [][\A id \in 1..MaxTasks :
          start_task_timer(id) =>
             IF id \notin DOMAIN db.tasks THEN db' = db
             ELSE IF db.tasks[id].timer_started_at # None THEN db' = db
             ELSE /\ db'.tasks[id].timer_started_at = Some(now)
                  /\ db'.tasks[id].timer_accumulated_seconds =
                        db.tasks[id].timer_accumulated_seconds
                  /\ IF db.tasks[id].status = "done"
                     THEN /\ db'.tasks[id].status = "in_progress"
                          /\ db'.tasks[id].completed_at = None
                     ELSE db'.tasks[id].status = db.tasks[id].status]_vars

\* A task that was completed runs again: it is in progress with a timer
\* started at a later instant than its seconds were folded.
C25_Witness ==
    \E i \in DOMAIN db.tasks :
        /\ db.tasks[i].status = "in_progress"
        /\ db.tasks[i].completed_at = None
        /\ db.tasks[i].timer_started_at = Some(now)
        /\ db.tasks[i].timer_accumulated_seconds = 2
        /\ db.tasks[i].title = "u"


\* The seconds the claims add for a timer started at started_at: now less
\* the start, not below 0, and 0 for a start stamp that does not parse.
ElapsedSeconds(started_at) ==
    IF started_at = BadStamp THEN 0
    ELSE IF now > started_at THEN now - started_at
    ELSE 0

\* C26: pause_task_timer(id) changes nothing when the task is missing or
\* its timer is not running; otherwise it adds max(0, now - timer_started_at)
\* to timer_accumulated_seconds (0 when the start stamp does not parse),
\* clears timer_started_at and leaves status and completed_at unchanged.
C26_TimerPause ==
    [][\A id \in 1..MaxTasks :
          pause_task_timer(id) =>
             IF id \notin DOMAIN db.tasks THEN db' = db
             ELSE IF db.tasks[id].timer_started_at = None THEN db' = db
             ELSE /\ db'.tasks[id].timer_accumulated_seconds =
                        db.tasks[id].timer_accumulated_seconds
                          + ElapsedSeconds(db.tasks[id].timer_started_at[1])
                  /\ db'.tasks[id].timer_started_at = None
                  /\ db'.tasks[id].status = db.tasks[id].status
                  /\ db'.tasks[id].completed_at = db.tasks[id].completed_at]_vars

\* A task created and never edited was paused after its timer ran for the
\* whole span of the clock.
C26_Witness ==
    \E i \in DOMAIN db.tasks :
        /\ db.tasks[i].status = "todo"
        /\ db.tasks[i].timer_started_at = None
        /\ db.tasks[i].timer_accumulated_seconds = MaxNow
        /\ db.tasks[i].updated_at = MaxNow


\* C27: reset_task_timer(id) on an existing task, whatever its timer state,
\* leaves timer_started_at null and timer_accumulated_seconds = 0, and
\* changes no other field of that task except updated_at, and no other task.
C27_TimerReset ==
    [][\A id \in DOMAIN db.tasks :
          reset_task_timer(id) =>
             /\ db'.tasks[id].timer_started_at = None
             /\ db'.tasks[id].timer_accumulated_seconds = 0
             /\ db'.tasks[id] =
                   [db.tasks[id] EXCEPT
                       !.timer_started_at = None,
                       !.timer_accumulated_seconds = 0,
                       !.updated_at = db'.tasks[id].updated_at]
             /\ DOMAIN db'.tasks = DOMAIN db.tasks
             /\ \A other \in DOMAIN db.tasks \ {id} : db'.tasks[other] = db.tasks[other]]_vars

\* One task was reset at the last instant while another still runs and a
\* stopped one keeps its seconds.
C27_Witness ==
    \E i, j \in DOMAIN db.tasks :
        /\ db.tasks[i].timer_started_at = None
        /\ db.tasks[i].timer_accumulated_seconds = 0
        /\ db.tasks[i].updated_at = now
        /\ db.tasks[i].status = "in_progress"
        /\ now > 0
        /\ db.tasks[j].timer_accumulated_seconds > 0


\* What C28 says of the step that gives task id the status.
StatusChangeEffect(id, status) ==
    IF StoredStatus(status) = "done"
    THEN /\ db'.tasks[id].completed_at = Some(now)
         /\ db.tasks[id].timer_started_at # None =>
               /\ db'.tasks[id].timer_accumulated_seconds =
                     db.tasks[id].timer_accumulated_seconds
                       + ElapsedSeconds(db.tasks[id].timer_started_at[1])
               /\ db'.tasks[id].timer_started_at = None
    ELSE db'.tasks[id].completed_at = None

\* C28: update_task and update_task_status with normalized status done, on
\* a task whose timer is running, add the elapsed seconds since
\* timer_started_at (the rule of pause) to timer_accumulated_seconds, clear
\* timer_started_at and set completed_at = now; with a status other than
\* done they set completed_at to null.
C28_StatusChangeFoldsTimer ==
    [][\A id \in DOMAIN db.tasks, status \in TimerStatuses :
          /\ update_task(id, "u", "d", status, None, None, None)
                => StatusChangeEffect(id, status)
          /\ update_task_status(id, status) => StatusChangeEffect(id, status)]_vars

\* A task whose timer was started at instant 1 was completed at instant 2:
\* one second is folded in and completed_at is the instant of completion.
C28_Witness ==
    \E i \in DOMAIN db.tasks :
        /\ db.tasks[i].status = "done"
        /\ db.tasks[i].completed_at = Some(2)
        /\ db.tasks[i].timer_started_at = None
        /\ db.tasks[i].timer_accumulated_seconds = 1
        /\ db.tasks[i].created_at = 0
        /\ now = 2


\* The timer of task id is after the step what it was before.
TimerUntouched(id) ==
    /\ db'.tasks[id].timer_started_at = db.tasks[id].timer_started_at
    /\ db'.tasks[id].timer_accumulated_seconds = db.tasks[id].timer_accumulated_seconds

\* C29: update_task or update_task_status with a status other than done, on
\* a task whose timer is running, leaves timer_started_at and
\* timer_accumulated_seconds as they were.
C29_EditKeepsTimer ==
    [][\A id \in DOMAIN db.tasks, status \in TimerStatuses :
          (StoredStatus(status) # "done" /\ db.tasks[id].timer_started_at # None) =>
             /\ update_task(id, "u", "d", status, None, None, None) => TimerUntouched(id)
             /\ update_task_status(id, status) => TimerUntouched(id)]_vars

\* A task was edited at instant 2 while the timer started at instant 1
\* keeps running.
C29_Witness ==
    \E i \in DOMAIN db.tasks :
        /\ db.tasks[i].title = "u"
        /\ db.tasks[i].status = "todo"
        /\ db.tasks[i].timer_started_at = Some(1)
        /\ db.tasks[i].updated_at = 2


\* C30: under the non-decreasing clock, create_page stores updated_at =
\* created_at = now, update_page on an existing page sets updated_at = now
\* and leaves created_at unchanged, and so a page's updated_at never
\* decreases and is never below its created_at.
C30_PageRecency ==
    /\ [](\A i \in DOMAIN db.pages : db.pages[i].updated_at >= db.pages[i].created_at)
    /\ [][/\ \A content \in Texts :
                create_page("p", content) =>
                   /\ db'.pages[NextRowId(db.pages)].created_at = now
                   /\ db'.pages[NextRowId(db.pages)].updated_at = now
          /\ \A id \in DOMAIN db.pages, content \in Texts :
                update_page(id, "p", content) =>
                   /\ db'.pages[id].updated_at = now
                   /\ db'.pages[id].created_at = db.pages[id].created_at
                   /\ db'.pages[id].updated_at >= db.pages[id].updated_at
          /\ (\E content \in Texts :
                 \/ create_page("p", content)
                 \/ \E id \in 1..MaxId : update_page(id, "p", content))
                => \A i \in DOMAIN db.pages :
                      /\ i \in DOMAIN db'.pages
                      /\ db'.pages[i].updated_at >= db.pages[i].updated_at]_vars

\* A page edited after its creation beside a page created at this instant.
C30_Witness ==
    \E i, j \in DOMAIN db.pages :
        /\ db.pages[i].updated_at > db.pages[i].created_at
        /\ db.pages[i].content = "C"
        /\ db.pages[j].created_at = now
        /\ db.pages[j].updated_at = now
        /\ db.pages[j].created_at > db.pages[i].created_at

----------------------------------------------------------------------------
\* C31: accumulated time is never negative. In every state that task
\* commands, timer commands and imports reach (imports with a negative or
\* absent timer_accumulated_seconds or a start stamp ahead of the clock
\* among them), with the additions done in i64, every stored task has
\* timer_accumulated_seconds >= 0.
C31_AccumulatedNonNegative ==
    \A id \in DOMAIN db.tasks : db.tasks[id].timer_accumulated_seconds >= 0

----------------------------------------------------------------------------
\* No row of table t is deleted by the step, and no value a row had is
\* changed by it.
RowsKept(t) ==
    \A i \in DOMAIN db[t] :
        /\ i \in DOMAIN db'[t]
        /\ \A c \in DOMAIN db[t][i] :
              /\ c \in DOMAIN db'[t][i]
              /\ db'[t][i][c] = db[t][i][c]

\* C32: migrations are additive. Over any run of the Migration Runner, from
\* any database state, every table, column and index present before a step
\* is present after it, and no row of entries, pages, tasks, goals, habits
\* or habit_logs is deleted or altered by a step.
C32_MigrationsAdditive ==
    [][/\ schema \subseteq schema'
       /\ \A t \in DOMAIN db : RowsKept(t)]_vars

\* A task row written before the tasks table had a priority column went
\* through the upgrade: it has the default priority and the status it had.
C32_Witness ==
    /\ mig.phase = "serving"
    /\ hist.bodyStmts > 0
    /\ \E i \in DOMAIN db.tasks :
          /\ db.tasks[i].status = "done"
          /\ db.tasks[i].priority = "medium"
          /\ db.tasks[i].timer_accumulated_seconds = 0

----------------------------------------------------------------------------
\* A record of the payload names the key of row i of the table: the date of
\* an entry, the id of a page, task, goal or habit, the id or the (habit_id,
\* date) pair of a habit log.  The pair is read from the record as given, or
\* (normalized) with the date import_backup stores for it.
NamedBy(payload, kind, i, normalized) ==
    \E n \in 1..Len(payload[kind]) :
        LET rec == payload[kind][n]
            row == db[kind][i]
        IN CASE kind = "entries" -> rec.date = row.date
             [] kind = "habit_logs" ->
                   \/ rec.id = Some(i)
                   \/ /\ rec.habit_id = row.habit_id
                      /\ row.date = (IF normalized THEN normalize_habit_date(rec.date, now)
                                     ELSE rec.date)
             [] OTHER -> rec.id = Some(i)

\* A successful merging import deletes no row and leaves every row alone
\* whose key no record names.
ImportFrame(normalized) ==
    \A payload \in FramePayloads :
        (import_backup(payload, FALSE, 0) /\ result'.ok) =>
            \A kind \in DOMAIN db :
                \A i \in DOMAIN db[kind] :
                    /\ i \in DOMAIN db'[kind]
                    /\ ~NamedBy(payload, kind, i, normalized) => db'[kind][i] = db[kind][i]

\* C33 as stated: a successful import_backup with replace_existing = false
\* leaves unchanged every existing row whose key (entry date; page, task,
\* goal or habit id; habit log id or (habit_id, date) pair) is named by no
\* record of the payload, and never deletes a row.
C33_ImportFrame == [][ImportFrame(FALSE)]_vars

\* C33, amended: the same, where the (habit_id, date) pair a habit log record
\* names is taken with the date as import_backup stores it: a date that does
\* not parse names today's date.
C33_ImportFrameNormalized == [][ImportFrame(TRUE)]_vars

\* Imports have inserted a second row in four tables and the rows of id 1
\* are as they were before any import.
C33_Witness ==
    /\ result.ok
    /\ now > 0
    /\ \A kind \in {"entries", "pages", "goals", "habits"} :
          /\ DOMAIN db[kind] = {1, 2}
          /\ db[kind][1] = StoredRow(kind)
    /\ db.tasks = (1 :> StoredRow("tasks"))
    /\ db.habits[2].created_at > 0

----------------------------------------------------------------------------
\* One of the commands of C34 is called with an id (a date) that no row of
\* its table has.
MissingKeyCall ==
    \/ \E date \in Dates :
          /\ EntryWithDate(db.entries, date) = {}
          /\ delete_entry(date)
    \/ \E id \in RowIds \ DOMAIN db.pages :
          update_page(id, "p", "A") \/ delete_page(id)
    \/ \E id \in RowIds \ DOMAIN db.tasks :
          \/ update_task(id, "t", "d", "todo", None, None, None)
          \/ update_task_status(id, "todo")
          \/ reset_task_timer(id)
          \/ delete_task(id)
    \/ \E id \in RowIds \ DOMAIN db.goals :
          update_goal(id, "g", "d", None, None, None) \/ delete_goal(id)
    \/ \E id \in RowIds \ DOMAIN db.habits :
          update_habit(id, "h", "d", None, None) \/ delete_habit(id, 0)

\* C34: operations on a missing id are silent no-ops. update_page,
\* update_task, update_task_status, update_goal, update_habit,
\* reset_task_timer, delete_page, delete_task, delete_goal, delete_habit and
\* delete_entry, called with an id or date that matches no row, return
\* success, create no row and leave every table unchanged.
C34_MissingIdNoOp ==
    [][MissingKeyCall => (result'.ok /\ db' = db)]_vars

----------------------------------------------------------------------------
\* The logs of the table that record the habit on the date.
LogsFor(logs, habit_id, date) ==
    {i \in DOMAIN logs : <<logs[i].habit_id, logs[i].date>> = <<habit_id, date>>}

\* The dates of HabitDates that parse.
ValidDates == HabitDates \ {BadDate}

\* C35: habit toggle idempotence. For an existing habit h and a valid date
\* d, toggle_habit_completion(h, d, true) leaves exactly one log for (h, d)
\* however often it is applied, toggle_habit_completion(h, d, false) leaves
\* none, so that after any sequence of toggles for (h, d) the log is there
\* iff the last toggle had completed = true; the logs of other (habit, date)
\* pairs are unchanged.
C35_ToggleIdempotent ==
    [][\A h \in DOMAIN db.habits, d \in ValidDates, completed \in BOOLEAN :
          toggle_habit_completion(h, d, completed) =>
             /\ result'.ok
             /\ Cardinality(LogsFor(db'.habit_logs, h, d)) = (IF completed THEN 1 ELSE 0)
             /\ \A i \in DOMAIN db.habit_logs \ LogsFor(db.habit_logs, h, d) :
                   /\ i \in DOMAIN db'.habit_logs
                   /\ db'.habit_logs[i] = db.habit_logs[i]
             /\ DOMAIN db'.habit_logs \ LogsFor(db'.habit_logs, h, d)
                   \subseteq DOMAIN db.habit_logs]_vars

\* An existing habit has its one log for day 1, which only a toggle writes,
\* beside a log of another pair.
C35_Witness ==
    \E h \in DOMAIN db.habits :
        /\ Cardinality(LogsFor(db.habit_logs, h, 1)) = 1
        /\ \E i \in DOMAIN db.habit_logs : db.habit_logs[i].date # 1
        /\ result.ok

----------------------------------------------------------------------------
\* All five versions are recorded and the schema is the latest one: every
\* table, the six columns added to tasks, every index.
Recovered ==
    /\ Versions = 1..LatestVersion
    /\ schema = LatestSchema

\* C36: migration recovery. After runs of the Migration Runner that failed
\* at any statement of any step, leaving the schema changes made up to
\* there, a later run in which no statement fails completes with all five
\* versions recorded and the full latest schema: it does not err on the
\* objects the failed runs left behind.
C36_MigrationRecovery ==
    (LastRun /\ mig.phase = "init") ~> (mig.phase = "serving" /\ Recovered)

\* The last launch completed on a file on which the launch before it had
\* stopped inside the body of a step, part of that step's objects made.
C36_Witness ==
    /\ LastRun
    /\ mig.phase = "serving"
    /\ Recovered
    /\ hist.startSchema # {}
    /\ \E v \in 1..LatestVersion :
          /\ v \notin DOMAIN hist.startMigrations
          /\ StepObjects(v) \cap hist.startSchema # {}
          /\ ~(StepObjects(v) \subseteq hist.startSchema)

============================================================================
